---- MODULE Spec2Model ----
(***************************************************************************)
(* Model of the google-ads-mcp server: process start-up, the cached API    *)
(* client, the three tool handlers (list_accounts, query, mutate) and the  *)
(* response formatter.                                                     *)
(*                                                                         *)
(* JavaScript values are tagged records (the field that carries the        *)
(* payload differs per tag, so values of different types are unequal).     *)
(* JavaScript strings are TLA+ strings; the string methods the code uses   *)
(* are operators over their characters.                                    *)
(***************************************************************************)
EXTENDS Integers, Sequences, FiniteSets, TLC

VARIABLES
    env,            \* process.env: variable name -> Undef or Str
    phase,          \* position of the server module: loading/exited/created/serving
    exitCode,       \* status passed to process.exit, -1 while running
    cachedClient,   \* auth.js module variable: 0 is null, n > 0 the n-th client built
    constructed,    \* number of GoogleAdsApi objects built so far
    pc,             \* position of the tool invocation: idle/awaiting/done
    tool,           \* name of the tool being invoked
    params,         \* its arguments
    calls,          \* remote calls issued by this invocation, in order
    outcome,        \* how the invocation ended
    handled         \* requests that reached a handler since the process started

vars == <<env, phase, exitCode, cachedClient, constructed,
          pc, tool, params, calls, outcome, handled>>

-----------------------------------------------------------------------------
(* JavaScript values *)

Undef == [t |-> "undef"]
Null == [t |-> "null"]
Str(s) == [t |-> "str", s |-> s]
Num(n) == [t |-> "num", n |-> n]
Bool(b) == [t |-> "bool", b |-> b]
Arr(a) == [t |-> "arr", a |-> a]
Obj(ctor, props) == [t |-> "obj", ctor |-> ctor, props |-> props]

\* ToBoolean
Truthy(v) ==
    CASE v.t = "undef" -> FALSE
      [] v.t = "null" -> FALSE
      [] v.t = "str" -> v.s # ""
      [] v.t = "num" -> v.n # 0
      [] v.t = "nan" -> FALSE
      [] v.t = "bool" -> v.b
      [] OTHER -> TRUE

\* a || b
OrElse(a, b) == IF Truthy(a) THEN a ELSE b

IsStr(v) == v.t = "str"

-----------------------------------------------------------------------------
(* String methods *)

UPPER == "ABCDEFGHIJKLMNOPQRSTUVWXYZ"
LOWER == "abcdefghijklmnopqrstuvwxyz"
DIGITS == "0123456789"

CharAt(s, i) == SubSeq(s, i, i)

UpperChars == {CharAt(UPPER, i) : i \in 1..Len(UPPER)}
LowerChars == {CharAt(LOWER, i) : i \in 1..Len(LOWER)}
DigitChars == {CharAt(DIGITS, i) : i \in 1..Len(DIGITS)}

ToLower == [c \in UpperChars |-> CharAt(LOWER, CHOOSE i \in 1..Len(UPPER) : CharAt(UPPER, i) = c)]
ToUpper == [c \in LowerChars |-> CharAt(UPPER, CHOOSE i \in 1..Len(LOWER) : CharAt(LOWER, i) = c)]
DigitValue == [c \in DigitChars |-> (CHOOSE i \in 1..Len(DIGITS) : CharAt(DIGITS, i) = c) - 1]

LowerChar(c) == IF c \in UpperChars THEN ToLower[c] ELSE c
UpperChar(c) == IF c \in LowerChars THEN ToUpper[c] ELSE c

\* character by character; the text is halved to keep the evaluation shallow
RECURSIVE toLowerCase(_)
toLowerCase(s) ==
    IF Len(s) <= 1 THEN LowerChar(s)
    ELSE toLowerCase(SubSeq(s, 1, Len(s) \div 2))
         \o toLowerCase(SubSeq(s, Len(s) \div 2 + 1, Len(s)))

RECURSIVE toUpperCase(_)
toUpperCase(s) ==
    IF Len(s) <= 1 THEN UpperChar(s)
    ELSE toUpperCase(SubSeq(s, 1, Len(s) \div 2))
         \o toUpperCase(SubSeq(s, Len(s) \div 2 + 1, Len(s)))

IsSpace(c) == c \in {" ", "\n", "\t", "\r"}
IsDigit(c) == c \in DigitChars
\* \w of a regular expression
IsWordChar(c) == c \in UpperChars \/ c \in LowerChars \/ IsDigit(c) \/ c = "_"

RECURSIVE trimStart(_)
trimStart(s) ==
    IF s # "" /\ IsSpace(CharAt(s, 1)) THEN trimStart(Tail(s)) ELSE s

RECURSIVE trimEnd(_)
trimEnd(s) ==
    IF s # "" /\ IsSpace(CharAt(s, Len(s))) THEN trimEnd(SubSeq(s, 1, Len(s) - 1)) ELSE s

trim(s) == trimEnd(trimStart(s))

startsWith(s, p) == Len(p) <= Len(s) /\ SubSeq(s, 1, Len(p)) = p

\* first index at which k occurs in s, 0 when it does not occur
indexOf(s, k) ==
    LET hits == {i \in 1..(Len(s) - Len(k) + 1) : SubSeq(s, i, i + Len(k) - 1) = k}
    IN IF hits = {} THEN 0 ELSE CHOOSE i \in hits : \A j \in hits : i <= j

includes(s, k) == indexOf(s, k) > 0

\* parseInt(s, 10) of a string of decimal digits
RECURSIVE parseInt(_)
parseInt(s) ==
    IF s = "" THEN 0
    ELSE 10 * parseInt(SubSeq(s, 1, Len(s) - 1)) + DigitValue[CharAt(s, Len(s))]

Min(a, b) == IF a < b THEN a ELSE b
Max(a, b) == IF a > b THEN a ELSE b

RECURSIVE Join(_, _)
\* Array.prototype.join over an array of strings
Join(a, sep) ==
    IF Len(a) = 0 THEN ""
    ELSE IF Len(a) = 1 THEN a[1]
    ELSE a[1] \o sep \o Join(Tail(a), sep)

\* number of consecutive characters of s from position j on that are spaces
RECURSIVE SpaceRun(_, _)
SpaceRun(s, j) ==
    IF j <= Len(s) /\ IsSpace(CharAt(s, j)) THEN 1 + SpaceRun(s, j + 1) ELSE 0

\* number of consecutive characters of s from position j on that are digits
RECURSIVE DigitRun(_, _)
DigitRun(s, j) ==
    IF j <= Len(s) /\ IsDigit(CharAt(s, j)) THEN 1 + DigitRun(s, j + 1) ELSE 0

\* the regular expression /\bLIMIT\s+\d+/i matches s at position i
LimitMatchesAt(s, i) ==
    /\ i + 4 <= Len(s)
    /\ toUpperCase(SubSeq(s, i, i + 4)) = "LIMIT"
    /\ (i = 1 \/ ~IsWordChar(CharAt(s, i - 1)))
    /\ SpaceRun(s, i + 5) >= 1
    /\ DigitRun(s, i + 5 + SpaceRun(s, i + 5)) >= 1

\* the leftmost match of /\bLIMIT\s+(\d+)/i in s: its first and last position
\* and the captured digits; from = 0 when there is no match
LimitMatch(s) ==
    LET hits == {i \in 1..Len(s) : LimitMatchesAt(s, i)}
    IN IF hits = {} THEN [from |-> 0, to |-> 0, digits |-> ""]
       ELSE LET i == CHOOSE h \in hits : \A j \in hits : h <= j
                d == i + 5 + SpaceRun(s, i + 5)
                n == DigitRun(s, d)
            IN [from |-> i, to |-> d + n - 1, digits |-> SubSeq(s, d, d + n - 1)]

-----------------------------------------------------------------------------
(* auth.js *)

REQUIRED_ENV_VARS ==
    <<"GOOGLE_ADS_DEVELOPER_TOKEN", "GOOGLE_ADS_CLIENT_ID",
      "GOOGLE_ADS_CLIENT_SECRET", "GOOGLE_ADS_REFRESH_TOKEN">>

OPTIONAL_ENV_VARS ==
    {"GOOGLE_ADS_LOGIN_CUSTOMER_ID", "GOOGLE_ADS_DEFAULT_CUSTOMER_ID",
     "GOOGLE_ADS_CUSTOMER_ID"}

ENV_VARS == {REQUIRED_ENV_VARS[i] : i \in 1..Len(REQUIRED_ENV_VARS)} \cup OPTIONAL_ENV_VARS

\* the missing names of the list vs from position i on, in order
RECURSIVE MissingFrom(_, _, _)
MissingFrom(e, vs, i) ==
    IF i > Len(vs) THEN <<>>
    ELSE (IF ~Truthy(e[vs[i]]) THEN <<vs[i]>> ELSE <<>>) \o MissingFrom(e, vs, i + 1)

validateEnvironmentAnyValue(e) ==
    LET missing == SelectSeq(REQUIRED_ENV_VARS, LAMBDA v : e[v].t = "undef")
    IN [valid |-> Len(missing) = 0, missing |-> missing]

validateEnvironment(e) ==
    LET missing == MissingFrom(e, REQUIRED_ENV_VARS, 1)
    IN [valid |-> Len(missing) = 0, missing |-> missing]

\* new Error(message)
NewError(message) ==
    Obj("Error", <<<<"stack", Str("Error: " \o message)>>, <<"message", Str(message)>>>>)

\* Result of a call that either returns a value or throws one.
Returned(v) == [threw |-> FALSE, value |-> v]
Threw(v) == [threw |-> TRUE, value |-> v]

\* the part of initializeGoogleAdsClient after the cache check
buildClient(e, cache, count, ctorOk) ==
    IF ~validateEnvironment(e).valid
    THEN [res |-> Threw(NewError("Missing required environment variables: "
                     \o Join(validateEnvironment(e).missing, ", ")
                     \o "\nPlease set these variables before starting the server.")),
          cache |-> cache, count |-> count]
    ELSE IF ctorOk
    THEN [res |-> Returned(count + 1), cache |-> count + 1, count |-> count + 1]
    ELSE [res |-> Threw(NewError("Failed to initialize Google Ads client: constructor failed")),
          cache |-> cache, count |-> count]

initializeGoogleAdsClientNoCache(e, cache, count, ctorOk) ==
    buildClient(e, cache, count, ctorOk)

\* e: process.env, cache: cachedClient, count: clients built so far,
\* ctorOk: whether the GoogleAdsApi constructor returns
initializeGoogleAdsClient(e, cache, count, ctorOk) ==
    IF cache # 0
    THEN [res |-> Returned(cache), cache |-> cache, count |-> count]
    ELSE buildClient(e, cache, count, ctorOk)

\* the Customer handle: the client it was made from and the account ids
getCustomerClient(e, cache, count, ctorOk, customerId) ==
    LET r == initializeGoogleAdsClient(e, cache, count, ctorOk)
    IN IF r.res.threw THEN r
       ELSE [res |-> Returned([client |-> r.res.value,
                               customer_id |-> customerId,
                               login_customer_id |-> e["GOOGLE_ADS_LOGIN_CUSTOMER_ID"]]),
             cache |-> r.cache, count |-> r.count]

-----------------------------------------------------------------------------
(* Objects: property reads, string conversion, JSON.stringify *)

\* value of a property whose getter throws new Error(s) when read
Throws(s) == [t |-> "throws", s |-> s]

ERROR_CTORS == {"Error", "TypeError", "GoogleAdsError"}

HasOwn(o, k) == \E i \in 1..Len(o.props) : o.props[i][1] = k
OwnVal(o, k) == o.props[CHOOSE i \in 1..Len(o.props) : o.props[i][1] = k][2]

\* what the prototype chain supplies when the object has no own property k
ProtoGet(ctor, k) ==
    IF ctor \in ERROR_CTORS /\ k = "name" THEN Str(ctor)
    ELSE IF ctor \in ERROR_CTORS /\ k = "message" THEN Str("")
    ELSE Undef

\* v?.k : the value read, or Throws(..) when the read throws
Get(v, k) ==
    IF v.t # "obj" THEN Undef
    ELSE IF HasOwn(v, k) THEN OwnVal(v, k)
    ELSE ProtoGet(v.ctor, k)

TypeError(s) == Obj("TypeError", <<<<"stack", Str("TypeError: " \o s)>>, <<"message", Str(s)>>>>)

RECURSIVE ToStringJS(_)
RECURSIVE JoinVals(_, _)

\* Array.prototype.join: undefined and null elements become empty strings
JoinVals(a, sep) ==
    IF Len(a) = 0 THEN ""
    ELSE LET h == IF a[1].t \in {"undef", "null"} THEN "" ELSE ToStringJS(a[1])
         IN IF Len(a) = 1 THEN h ELSE h \o sep \o JoinVals(Tail(a), sep)

\* String(v), as in a template literal; objects are read without throwing getters
ToStringJS(v) ==
    CASE v.t = "str" -> v.s
      [] v.t = "num" -> ToString(v.n)
      [] v.t = "nan" -> "NaN"
      [] v.t = "bool" -> (IF v.b THEN "true" ELSE "false")
      [] v.t = "null" -> "null"
      [] v.t = "undef" -> "undefined"
      [] v.t = "arr" -> JoinVals(v.a, ",")
      [] v.t = "obj" ->
           IF v.ctor \in ERROR_CTORS
           THEN LET n == IF Get(v, "name").t = "undef" THEN "Error" ELSE ToStringJS(Get(v, "name"))
                    m == IF Get(v, "message").t = "undef" THEN "" ELSE ToStringJS(Get(v, "message"))
                IN IF n = "" THEN m ELSE IF m = "" THEN n ELSE n \o ": " \o m
           ELSE "[object Object]"

\* the object has a toString method (objects without a prototype have none)
HasToString(v) == v.t \in {"num", "bool", "arr"} \/ (v.t = "obj" /\ v.ctor # "none")

RECURSIVE Stringify(_)
RECURSIVE StringifyItems(_)
RECURSIVE StringifyProps(_, _)

\* the elements of an array, serialized and comma-separated
StringifyItems(a) ==
    IF Len(a) = 0 THEN ""
    ELSE LET h == IF Stringify(a[1]).t = "undef" THEN "null" ELSE Stringify(a[1]).s
         IN IF Len(a) = 1 THEN h ELSE h \o "," \o StringifyItems(Tail(a))

\* the properties of an object, serialized; undefined values are left out
StringifyProps(ps, first) ==
    IF Len(ps) = 0 THEN ""
    ELSE LET j == Stringify(ps[1][2])
         IN IF j.t = "undef" THEN StringifyProps(Tail(ps), first)
            ELSE (IF first THEN "" ELSE ",") \o "\"" \o ps[1][1] \o "\":" \o j.s
                 \o StringifyProps(Tail(ps), FALSE)

\* JSON.stringify(v): Undef when the result is undefined, else Str(text)
Stringify(v) ==
    CASE v.t = "undef" -> Undef
      [] v.t = "null" -> Str("null")
      [] v.t = "str" -> Str("\"" \o v.s \o "\"")
      [] v.t = "num" -> Str(ToString(v.n))
      [] v.t = "bool" -> Str(IF v.b THEN "true" ELSE "false")
      [] v.t = "arr" -> Str("[" \o StringifyItems(v.a) \o "]")
      [] v.t = "obj" -> Str("{" \o StringifyProps(v.props, TRUE) \o "}")

RECURSIVE PrettyItems(_)
\* the elements of an array value of the top-level object, at indent 4
PrettyItems(a) ==
    IF Len(a) = 0 THEN ""
    ELSE LET h == IF Stringify(a[1]).t = "undef" THEN "null" ELSE Stringify(a[1]).s
         IN "\n    " \o h \o (IF Len(a) = 1 THEN "" ELSE "," \o PrettyItems(Tail(a)))

PrettyValue(v) ==
    IF v.t = "arr"
    THEN IF Len(v.a) = 0 THEN "[]" ELSE "[" \o PrettyItems(v.a) \o "\n  ]"
    ELSE Stringify(v).s

RECURSIVE PrettyProps(_, _)
PrettyProps(ps, first) ==
    IF Len(ps) = 0 THEN ""
    ELSE IF Stringify(ps[1][2]).t = "undef" THEN PrettyProps(Tail(ps), first)
    ELSE (IF first THEN "" ELSE ",") \o "\n  \"" \o ps[1][1] \o "\": " \o PrettyValue(ps[1][2])
         \o PrettyProps(Tail(ps), FALSE)

\* JSON.stringify(o, null, 2) of an object whose values are scalars or arrays of scalars
StringifyPretty(ps) ==
    LET body == PrettyProps(ps, TRUE)
    IN IF body = "" THEN "{}" ELSE "{" \o body \o "\n}"

-----------------------------------------------------------------------------
(* utils/response-format.js: formatError *)

McpError(code, message) == [t |-> "McpError", code |-> code, message |-> message]

RATE_LIMIT_MESSAGE == "Google Ads API rate limit exceeded. Please try again in a few moments."
AUTH_MESSAGE == "Authentication failed. Please check your Google Ads credentials."

\* e?.message || e?.error_message || JSON.stringify(e)
SubErrorText(e) ==
    OrElse(OrElse(Get(e, "message"), Get(e, "error_message")), Stringify(e))

\* the callback of error.failures.map: Returned(text) or Threw(TypeError)
FailureText(f) ==
    IF f.t = "str" THEN Returned(f)
    ELSE IF Truthy(Get(f, "message")) THEN Returned(Get(f, "message"))
    ELSE IF Truthy(Get(f, "error_message")) THEN Returned(Get(f, "error_message"))
    ELSE IF Truthy(Get(f, "errors"))
    THEN IF Get(f, "errors").t = "arr"
         THEN Returned(Str(JoinVals([i \in 1..Len(Get(f, "errors").a) |->
                                        SubErrorText(Get(f, "errors").a[i])], "; ")))
         ELSE Threw(TypeError("f.errors.map is not a function"))
    ELSE Returned(Stringify(f))

\* the callback of error.errors.map
ErrorText(e) ==
    IF e.t = "str" THEN e
    ELSE IF Truthy(Get(e, "message")) THEN Get(e, "message")
    ELSE IF Truthy(Get(e, "error_message")) THEN Get(e, "error_message")
    ELSE Stringify(e)

\* lines 54-55: the texts the map callback gave, filtered and joined; the
\* first callback that threw ends the map
JoinFailures(texts) ==
    IF \E i \in 1..Len(texts) : texts[i].threw
    THEN Threw(texts[CHOOSE i \in 1..Len(texts) :
                       texts[i].threw /\ \A j \in 1..(i - 1) : ~texts[j].threw].value)
    ELSE LET failures == JoinVals(SelectSeq([i \in 1..Len(texts) |-> texts[i].value], Truthy), "; ")
         IN Returned(Str(IF failures # "" THEN failures
                         ELSE "Google Ads API error (see failures array)"))

\* lines 44-55: the message taken from error.failures
FlattenFailures(a) == JoinFailures([i \in 1..Len(a) |-> FailureText(a[i])])

\* lines 56-64: the message taken from error.errors
FlattenErrors(a) ==
    LET errors == JoinVals(SelectSeq([i \in 1..Len(a) |-> ErrorText(a[i])], Truthy), "; ")
    IN Returned(Str(IF errors # "" THEN errors
                    ELSE "Google Ads API error (see errors array)"))

\* lines 36-71 with .details consulted before .message
ExtractMessageDetailsFirst(error) ==
    IF error.t = "str" THEN Returned(error)
    ELSE IF Get(error, "details").t = "throws" THEN Threw(NewError(Get(error, "details").s))
    ELSE IF Truthy(Get(error, "details")) /\ Get(error, "details").t = "str"
    THEN Returned(Get(error, "details"))
    ELSE IF Get(error, "message").t = "throws" THEN Threw(NewError(Get(error, "message").s))
    ELSE IF Truthy(Get(error, "message")) THEN Returned(Get(error, "message"))
    ELSE IF Get(error, "failures").t = "throws" THEN Threw(NewError(Get(error, "failures").s))
    ELSE IF Truthy(Get(error, "failures")) /\ Get(error, "failures").t = "arr"
    THEN FlattenFailures(Get(error, "failures").a)
    ELSE IF Get(error, "errors").t = "throws" THEN Threw(NewError(Get(error, "errors").s))
    ELSE IF Truthy(Get(error, "errors")) /\ Get(error, "errors").t = "arr"
    THEN FlattenErrors(Get(error, "errors").a)
    ELSE IF HasToString(error)
    THEN IF Get(error, "name").t = "throws" /\ error.ctor \in ERROR_CTORS
         THEN Threw(NewError(Get(error, "name").s))
         ELSE LET str == ToStringJS(error)
              IN IF str # "" /\ str # "[object Object]" THEN Returned(Str(str))
                 ELSE Returned(Str(""))
    ELSE Returned(Str(""))

\* lines 36-71: Returned(message) or Threw(what a property read threw)
ExtractMessage(error) ==
    IF error.t = "str" THEN Returned(error)
    ELSE IF Get(error, "message").t = "throws" THEN Threw(NewError(Get(error, "message").s))
    ELSE IF Truthy(Get(error, "message")) THEN Returned(Get(error, "message"))
    ELSE IF Get(error, "details").t = "throws" THEN Threw(NewError(Get(error, "details").s))
    ELSE IF Truthy(Get(error, "details")) /\ Get(error, "details").t = "str"
    THEN Returned(Get(error, "details"))
    ELSE IF Get(error, "failures").t = "throws" THEN Threw(NewError(Get(error, "failures").s))
    ELSE IF Truthy(Get(error, "failures")) /\ Get(error, "failures").t = "arr"
    THEN FlattenFailures(Get(error, "failures").a)
    ELSE IF Get(error, "errors").t = "throws" THEN Threw(NewError(Get(error, "errors").s))
    ELSE IF Truthy(Get(error, "errors")) /\ Get(error, "errors").t = "arr"
    THEN FlattenErrors(Get(error, "errors").a)
    ELSE IF HasToString(error)
    THEN IF Get(error, "name").t = "throws" /\ error.ctor \in ERROR_CTORS
         THEN Threw(NewError(Get(error, "name").s))
         ELSE LET str == ToStringJS(error)
              IN IF str # "" /\ str # "[object Object]" THEN Returned(Str(str))
                 ELSE Returned(Str(""))
    ELSE Returned(Str(""))

\* lines 81-95: the value stored in errorObj for one own property
SerializedProp(value) ==
    IF value.t = "throws" THEN Str("[Could not serialize: " \o value.s \o "]")
    ELSE IF value.t = "arr"
    THEN Arr([i \in 1..Len(value.a) |->
                 IF value.a[i].t \in {"null", "arr", "obj"} THEN Stringify(value.a[i])
                 ELSE value.a[i]])
    ELSE IF value.t = "obj" THEN Stringify(value)
    ELSE value

\* Object.getOwnPropertyNames(error) with the values read from them
OwnProps(error) ==
    IF error.t = "obj" THEN error.props
    ELSE IF error.t = "str" THEN <<<<"length", Num(Len(error.s))>>>>
    ELSE <<>>

\* lines 74-104: the message after the serialization attempt
SerializeFallback(error, message) ==
    IF Truthy(message) THEN message
    ELSE IF error.t \in {"undef", "null"} THEN message
    ELSE LET ps == OwnProps(error)
             serialized == StringifyPretty([i \in 1..Len(ps) |->
                                              <<ps[i][1], SerializedProp(ps[i][2])>>])
         IN IF serialized # "{}" THEN Str(serialized) ELSE message

\* typeof
TypeOf(v) ==
    CASE v.t = "undef" -> "undefined"
      [] v.t = "str" -> "string"
      [] v.t = "num" -> "number"
      [] v.t = "bool" -> "boolean"
      [] OTHER -> "object"

\* error?.constructor?.name
ConstructorName(v) ==
    CASE v.t = "str" -> Str("String")
      [] v.t = "num" -> Str("Number")
      [] v.t = "bool" -> Str("Boolean")
      [] v.t = "obj" /\ v.ctor # "none" -> Str(v.ctor)
      [] OTHER -> Undef

\* lines 107-109
UnknownFallback(error, message) ==
    IF ~Truthy(message) \/ message = Str("{}") \/ message = Str("[object Object]")
    THEN Str("Unknown error type: "
             \o ToStringJS(OrElse(ConstructorName(error), Str(TypeOf(error))))
             \o " - check server logs for details")
    ELSE message

\* lines 73-109 entered with the outcome x of lines 36-71
Fallbacks(error, x) ==
    IF x.threw THEN x
    ELSE Returned(UnknownFallback(error, SerializeFallback(error, x.value)))

\* lines 36-109: the final message, or what was thrown on the way
FinalMessage(error) == Fallbacks(error, ExtractMessage(error))

\* lines 131-137: the generic error, or what reading name or code threw
GenericError(error, m) ==
    IF Get(error, "name").t = "throws" THEN NewError(Get(error, "name").s)
    ELSE IF Get(error, "code").t = "throws" THEN NewError(Get(error, "code").s)
    ELSE LET errorName == IF Truthy(Get(error, "name")) /\ Get(error, "name") # Str("Error")
                          THEN ToStringJS(Get(error, "name")) \o ": " ELSE ""
             errorCode == IF Truthy(Get(error, "code"))
                          THEN " (code: " \o ToStringJS(Get(error, "code")) \o ")" ELSE ""
         IN McpError("InternalError", errorName \o m \o errorCode)

\* lines 111-137 with the two middle rules tried before the first
ClassifyRateFirst(error, m) ==
    IF includes(m, "RATE_LIMIT") \/ includes(m, "quota")
    THEN McpError("InternalError", RATE_LIMIT_MESSAGE)
    ELSE IF includes(m, "AUTHENTICATION") \/ includes(m, "credentials") \/ includes(m, "auth")
    THEN McpError("InternalError", AUTH_MESSAGE)
    ELSE IF includes(m, "required") \/ includes(m, "Invalid")
    THEN McpError("InvalidParams", m)
    ELSE GenericError(error, m)

\* lines 111-137 with the raw message kept in the fixed-text kinds
ClassifyLeaky(error, m) ==
    IF includes(m, "required") \/ includes(m, "Invalid")
    THEN McpError("InvalidParams", m)
    ELSE IF includes(m, "RATE_LIMIT") \/ includes(m, "quota")
    THEN McpError("InternalError", RATE_LIMIT_MESSAGE \o " " \o m)
    ELSE IF includes(m, "AUTHENTICATION") \/ includes(m, "credentials") \/ includes(m, "auth")
    THEN McpError("InternalError", AUTH_MESSAGE \o " " \o m)
    ELSE GenericError(error, m)

\* lines 111-137: what is thrown for the final message m
Classify(error, m) ==
    IF includes(m, "required") \/ includes(m, "Invalid")
    THEN McpError("InvalidParams", m)
    ELSE IF includes(m, "RATE_LIMIT") \/ includes(m, "quota")
    THEN McpError("InternalError", RATE_LIMIT_MESSAGE)
    ELSE IF includes(m, "AUTHENTICATION") \/ includes(m, "credentials") \/ includes(m, "auth")
    THEN McpError("InternalError", AUTH_MESSAGE)
    ELSE GenericError(error, m)

\* lines 111-137 entered with the outcome f of lines 36-109
ThrowFor(error, f) ==
    IF f.threw THEN f.value
    ELSE IF f.value.t # "str" THEN TypeError("message.includes is not a function")
    ELSE Classify(error, f.value.s)

\* formatError has no return statement: its value here is what it throws
formatError(error) == ThrowFor(error, FinalMessage(error))

-----------------------------------------------------------------------------
(* utils/gaql-templates.js *)

RECURSIVE ExpandReplacement(_, _, _, _)
\* the replacement text of String.prototype.replace with its $ patterns
\* expanded; a string pattern has no capture groups, so $1 stays as written
ExpandReplacement(r, matched, before, after) ==
    LET d == indexOf(r, "$")
    IN IF d = 0 THEN r
       ELSE IF d < Len(r) /\ CharAt(r, d + 1) \in {"$", "&", "`", "'"}
       THEN SubSeq(r, 1, d - 1)
            \o (CASE CharAt(r, d + 1) = "$" -> "$"
                   [] CharAt(r, d + 1) = "&" -> matched
                   [] CharAt(r, d + 1) = "`" -> before
                   [] CharAt(r, d + 1) = "'" -> after)
            \o ExpandReplacement(SubSeq(r, d + 2, Len(r)), matched, before, after)
       ELSE SubSeq(r, 1, d) \o ExpandReplacement(SubSeq(r, d + 1, Len(r)), matched, before, after)

\* s.replace(pattern, replacement) for a string pattern: the first occurrence only
replace(s, pattern, replacement) ==
    LET i == indexOf(s, pattern)
    IN IF i = 0 THEN s
       ELSE LET before == SubSeq(s, 1, i - 1)
                after == SubSeq(s, i + Len(pattern), Len(s))
            IN before \o ExpandReplacement(ToStringJS(replacement), pattern, before, after) \o after

RECURSIVE collapseRange(_, _, _)
\* positions lo..hi of s with every run of spaces turned into one space
collapseRange(s, lo, hi) ==
    IF lo > hi THEN ""
    ELSE IF lo = hi
    THEN (IF ~IsSpace(CharAt(s, lo)) THEN CharAt(s, lo)
          ELSE IF lo > 1 /\ IsSpace(CharAt(s, lo - 1)) THEN "" ELSE " ")
    ELSE collapseRange(s, lo, (lo + hi) \div 2) \o collapseRange(s, (lo + hi) \div 2 + 1, hi)

\* s.replace(/\s+/g, ' ')
collapseWhitespace(s) == collapseRange(s, 1, Len(s))

-----------------------------------------------------------------------------
(* utils/query-validator.js *)

\* length of the run of [A-Z_] that starts at position j of s
RECURSIVE UpperRun(_, _)
UpperRun(s, j) ==
    IF j <= Len(s) /\ (CharAt(s, j) \in UpperChars \/ CharAt(s, j) = "_")
    THEN 1 + UpperRun(s, j + 1)
    ELSE 0

\* s holds k at position i
HasAt(s, i, k) == i >= 1 /\ i + Len(k) - 1 <= Len(s) /\ SubSeq(s, i, i + Len(k) - 1) = k

\* length of the match of /\{\{[A-Z_]+\}\}/ at position i of s, 0 when none
VarAt(s, i) ==
    IF HasAt(s, i, "{{") /\ UpperRun(s, i + 2) > 0 /\ HasAt(s, i + 2 + UpperRun(s, i + 2), "}}")
    THEN UpperRun(s, i + 2) + 4
    ELSE 0

\* the matches of s that start at a position of the set, leftmost first
RECURSIVE VarsFrom(_, _)
VarsFrom(s, starts) ==
    IF starts = {} THEN <<>>
    ELSE LET i == CHOOSE i \in starts : \A j \in starts : i <= j
         IN <<SubSeq(s, i, i + VarAt(s, i) - 1)>> \o VarsFrom(s, starts \ {i})

\* query.match(/\{\{[A-Z_]+\}\}/g), the empty sequence for null
templateVars(query) == VarsFrom(query, {i \in 1..Len(query) : VarAt(query, i) > 0})

\* the positions at which s holds k
Occurrences(s, k) == {i \in 1..Len(s) : HasAt(s, i, k)}

\* /conversion_value(?!s)/i, on the lower-cased query
ConversionValueSingular(lower) ==
    \E i \in Occurrences(lower, "conversion_value") :
        ~HasAt(lower, i + Len("conversion_value"), "s")

\* /segments\.product_item_id.*FROM shopping_performance_view/i, on the
\* lower-cased query: both on one line, in this order
ProductItemIdInShoppingView(lower) ==
    \E i \in Occurrences(lower, "segments.product_item_id") :
        \E j \in Occurrences(lower, "from shopping_performance_view") :
            /\ j >= i + Len("segments.product_item_id")
            /\ \A k \in (i + Len("segments.product_item_id"))..(j - 1) :
                  CharAt(lower, k) \notin {"\n", "\r"}

\* lintErrors looking for FROM in the query as written
lintErrorsCaseSensitive(query, found) ==
    (IF Len(found) > 0 THEN <<"Unreplaced template variables: " \o Join(found, ", ")>> ELSE <<>>)
    \o (IF ~startsWith(toUpperCase(trim(query)), "SELECT")
        THEN <<"Query must start with SELECT">> ELSE <<>>)
    \o (IF ~includes(query, "FROM")
        THEN <<"Query must include FROM clause">> ELSE <<>>)

lintErrors(query, found) ==
    (IF Len(found) > 0 THEN <<"Unreplaced template variables: " \o Join(found, ", ")>> ELSE <<>>)
    \o (IF ~startsWith(toUpperCase(trim(query)), "SELECT")
        THEN <<"Query must start with SELECT">> ELSE <<>>)
    \o (IF ~includes(toUpperCase(query), "FROM")
        THEN <<"Query must include FROM clause">> ELSE <<>>)

lintWarnings(query) ==
    (IF includes(toLowerCase(query), "conversions_value")
     THEN <<"Should be conversions_value (with underscore)">> ELSE <<>>)
    \o (IF ConversionValueSingular(toLowerCase(query))
        THEN <<"Should be conversions_value (plural)">> ELSE <<>>)
    \o (IF ProductItemIdInShoppingView(toLowerCase(query))
        THEN <<"segments.product_item_id may not be available in shopping_performance_view">>
        ELSE <<>>)
    \o (IF includes(query, "keyword_view") /\ includes(query, "segments.product_")
        THEN <<"keyword_view and product segments may be incompatible">> ELSE <<>>)
    \o (IF includes(query, "shopping_performance_view") /\ includes(query, "ad_group_criterion.keyword")
        THEN <<"shopping_performance_view and keyword fields may be incompatible">> ELSE <<>>)
    \o (IF includes(query, "segments.date") /\ ~includes(query, "WHERE")
        THEN <<"Query uses segments.date but has no WHERE clause - may return too much data">>
        ELSE <<>>)

validateQuery(query) ==
    [valid |-> Len(lintErrors(query, templateVars(query))) = 0,
     warnings |-> lintWarnings(query),
     errors |-> lintErrors(query, templateVars(query))]

\* the console.error calls of logValidation
logValidation(query, validation) ==
    IF Len(validation.errors) > 0
    THEN <<[fn |-> "console.error",
            args |-> <<"GAQL validation errors:", Join(validation.errors, "; ")>>]>>
    ELSE <<>>

-----------------------------------------------------------------------------
(* utils/gaql-templates.js: TEMPLATES and buildQuery *)

TEMPLATES ==
    [LIST_ACCOUNTS |->
        "\n    SELECT\n      customer_client.id,\n      customer_client.descriptive_name,\n"
        \o "      customer_client.manager,\n      customer_client.currency_code,\n"
        \o "      customer_client.time_zone,\n      customer_client.status\n"
        \o "    FROM customer_client\n    {{FILTERS}}\n  ",
     CAMPAIGN_PERFORMANCE |->
        "\n    SELECT\n      campaign.id,\n      campaign.name,\n      campaign.status,\n"
        \o "      campaign.advertising_channel_type,\n      {{METRICS}}\n    FROM campaign\n"
        \o "    WHERE segments.date BETWEEN '{{START_DATE}}' AND '{{END_DATE}}'\n"
        \o "      {{FILTERS}}\n    ORDER BY {{ORDER_BY}} DESC\n    LIMIT {{LIMIT}}\n  ",
     CAMPAIGN_DAILY_SPEND |->
        "\n    SELECT\n      campaign.id,\n      campaign.name,\n      metrics.cost_micros\n"
        \o "    FROM campaign\n    WHERE campaign.status = 'ENABLED'\n"
        \o "      AND segments.date = '{{DATE}}'\n      {{FILTERS}}\n  "]

\* the substitutions object with every key absent
NoSubstitutions ==
    [metrics |-> Undef, dates |-> Undef, filters |-> Undef, orderBy |-> Undef,
     limit |-> Undef, minImpressions |-> Undef, minCost |-> Undef,
     maxConversions |-> Undef, resourceId |-> Undef, date |-> Undef,
     maxQualityScore |-> Undef, segmentField |-> Undef, statusFilter |-> Undef,
     geoLevel |-> Undef]

\* withMetrics prefixing every name
withMetricsAlwaysPrefix(q, p) ==
    IF Truthy(p.metrics)
    THEN replace(q, "{{METRICS}}",
                 Str(Join([i \in 1..Len(p.metrics.a) |-> "metrics." \o p.metrics.a[i].s], ", ")))
    ELSE q

\* lines 333-340
withMetrics(q, p) ==
    IF Truthy(p.metrics)
    THEN replace(q, "{{METRICS}}",
                 Str(Join([i \in 1..Len(p.metrics.a) |->
                              IF startsWith(p.metrics.a[i].s, "metrics.") THEN p.metrics.a[i].s
                              ELSE "metrics." \o p.metrics.a[i].s], ", ")))
    ELSE q

\* lines 342-346
withDates(q, p) ==
    IF Truthy(p.dates)
    THEN replace(replace(q, "{{START_DATE}}", p.dates.start), "{{END_DATE}}", p.dates.end)
    ELSE q

\* `if (cond) query = query.replace(pattern, value)`
replaceIf(cond, q, pattern, value) == IF cond THEN replace(q, pattern, value) ELSE q

\* lines 348-362
withDefaults(q, p) ==
    replace(replace(replace(replace(q,
        "{{FILTERS}}", OrElse(p.filters, Str(""))),
        "{{ORDER_BY}}", OrElse(p.orderBy, Str("metrics.cost_micros"))),
        "{{LIMIT}}", OrElse(p.limit, Num(50))),
        "{{MIN_IMPRESSIONS}}", OrElse(p.minImpressions, Num(10)))

\* lines 364-405
withOptionals(q, p) ==
    replaceIf(Truthy(p.geoLevel),
      replace(
        replaceIf(Truthy(p.segmentField),
          replaceIf(p.maxQualityScore # Undef,
            replaceIf(Truthy(p.date),
              replaceIf(p.resourceId # Undef,
                replace(
                  replaceIf(p.minCost # Undef, q, "{{MIN_COST_MICROS}}",
                            IF p.minCost # Undef THEN Num(p.minCost.n * 1000000) ELSE Undef),
                  "{{MAX_CONVERSIONS}}",
                  IF p.maxConversions # Undef THEN p.maxConversions ELSE Num(0)),
                "{{RESOURCE_ID}}", p.resourceId),
              "{{DATE}}", p.date),
            "{{MAX_QUALITY_SCORE}}", p.maxQualityScore),
          "{{SEGMENT_FIELD}}", p.segmentField),
        "{{STATUS_FILTER}}",
        IF Truthy(p.statusFilter) THEN Str("= '" \o ToStringJS(p.statusFilter) \o "'")
        ELSE Str("IS NOT NULL")),
      "{{GEO_LEVEL}}", p.geoLevel)

\* buildQuery returning the empty string for a query the lint finds invalid
buildQueryStrict(template, p) ==
    LET finalQuery ==
            collapseWhitespace(trim(withOptionals(withDefaults(withDates(withMetrics(template, p), p), p), p)))
    IN IF validateQuery(finalQuery).valid THEN finalQuery ELSE ""

\* lines 410-414: what the lint of the final query writes to the console
logged(finalQuery) ==
    IF ~validateQuery(finalQuery).valid
    THEN logValidation(finalQuery, validateQuery(finalQuery))
    ELSE <<>>

\* the lint of line 411 only logs, so it has no part in the result
buildQuery(template, p) ==
    collapseWhitespace(trim(withOptionals(withDefaults(withDates(withMetrics(template, p), p), p), p)))

-----------------------------------------------------------------------------
(* utils/validation.js *)

MUTATION_KEYWORDS == <<"create", "update", "remove", "mutate", "delete">>

\* blockMutations without the lower-casing of the query
blockMutationsCaseSensitive(query) ==
    LET hits == {i \in 1..Len(MUTATION_KEYWORDS) : includes(query, MUTATION_KEYWORDS[i])}
    IN IF hits = {} THEN Returned(Undef)
       ELSE Threw(NewError("Mutation operations not allowed in query tool. Query contains: \""
                           \o MUTATION_KEYWORDS[CHOOSE i \in hits : \A j \in hits : i <= j]
                           \o "\". Use the mutate tool for write operations."))

\* blockMutations naming the keyword that occurs earliest in the text
blockMutationsEarliest(query) ==
    LET lowerQuery == toLowerCase(query)
        hits == {i \in 1..Len(MUTATION_KEYWORDS) : includes(lowerQuery, MUTATION_KEYWORDS[i])}
    IN IF hits = {} THEN Returned(Undef)
       ELSE Threw(NewError("Mutation operations not allowed in query tool. Query contains: \""
                           \o MUTATION_KEYWORDS[CHOOSE i \in hits : \A j \in hits :
                                  indexOf(lowerQuery, MUTATION_KEYWORDS[i])
                                     <= indexOf(lowerQuery, MUTATION_KEYWORDS[j])]
                           \o "\". Use the mutate tool for write operations."))

\* Returned(undefined), or Threw(the error naming the first keyword of the list found)
blockMutations(query) ==
    LET lowerQuery == toLowerCase(query)
        hits == {i \in 1..Len(MUTATION_KEYWORDS) : includes(lowerQuery, MUTATION_KEYWORDS[i])}
    IN IF hits = {} THEN Returned(Undef)
       ELSE Threw(NewError("Mutation operations not allowed in query tool. Query contains: \""
                           \o MUTATION_KEYWORDS[CHOOSE i \in hits : \A j \in hits : i <= j]
                           \o "\". Use the mutate tool for write operations."))

\* validateRequired with every falsy value counted as missing
validateRequiredFalsy(p, fields) ==
    LET Absent(field) == ~Truthy(Get(p, field))
        missing == SelectSeq(fields, Absent)
    IN IF Len(missing) > 0
       THEN Threw(NewError("Missing required parameter" \o (IF Len(missing) > 1 THEN "s" ELSE "")
                           \o ": " \o Join(missing, ", ")))
       ELSE Returned(Undef)

\* lines 10-19: Returned(undefined) or Threw(the error listing the missing fields)
validateRequired(p, fields) ==
    LET Absent(field) == Get(p, field) \in {Undef, Null, Str("")}
        missing == SelectSeq(fields, Absent)
    IN IF Len(missing) > 0
       THEN Threw(NewError("Missing required parameter" \o (IF Len(missing) > 1 THEN "s" ELSE "")
                           \o ": " \o Join(missing, ", ")))
       ELSE Returned(Undef)

\* validateEnum comparing the values as texts
validateEnumLoose(value, allowed, paramName) ==
    IF \E i \in 1..Len(allowed) : ToStringJS(allowed[i]) = ToStringJS(value)
    THEN Returned(Undef)
    ELSE Threw(NewError("Invalid " \o (IF paramName = Undef THEN "value" ELSE ToStringJS(paramName))
                        \o ": " \o ToStringJS(value)
                        \o ". Allowed values: " \o JoinVals(allowed, ", ")))

\* lines 28-34: Returned(undefined) or Threw(the error); paramName defaults to 'value'
validateEnum(value, allowed, paramName) ==
    IF \E i \in 1..Len(allowed) : allowed[i] = value
    THEN Returned(Undef)
    ELSE Threw(NewError("Invalid " \o (IF paramName = Undef THEN "value" ELSE ToStringJS(paramName))
                        \o ": " \o ToStringJS(value)
                        \o ". Allowed values: " \o JoinVals(allowed, ", ")))

-----------------------------------------------------------------------------
(* tools/gaql-query.js *)

maxLimit == 10000

\* lines 240-250: the query text that is sent, m being the match of the LIMIT clause
limitedQuery(query, limit, m) ==
    IF m.from = 0 THEN query \o " LIMIT " \o ToString(limit)
    ELSE IF parseInt(m.digits) > maxLimit
    THEN SubSeq(query, 1, m.from - 1) \o "LIMIT " \o ToString(maxLimit)
         \o SubSeq(query, m.to + 1, Len(query))
    ELSE query

\* lines 232-250: the limit and the query text that is sent
enforceLimit(query, limitParam) ==
    LET requestedLimit == OrElse(limitParam, Num(100))
        limit == Min(Max(1, requestedLimit.n), maxLimit)
    IN [limit |-> limit, finalQuery |-> limitedQuery(query, limit, LimitMatch(query))]

\* lines 203-250: Threw(error) or Returned(what the remote call needs)
queryChecks(p, e) ==
    IF ~Truthy(p.query) \/ p.query.t # "str"
    THEN Threw(NewError("query parameter is required and must be a string"))
    ELSE LET query == trim(p.query.s)
             customerId == OrElse(p.customer_id, e["GOOGLE_ADS_DEFAULT_CUSTOMER_ID"])
         IN IF query = "" THEN Threw(NewError("query cannot be empty"))
            ELSE IF blockMutations(query).threw THEN blockMutations(query)
            ELSE IF ~startsWith(toUpperCase(query), "SELECT")
            THEN Threw(NewError("Query must start with SELECT. This tool only supports read operations. "
                                \o "Use the mutate tool for write operations."))
            ELSE IF ~Truthy(customerId)
            THEN Threw(NewError("customer_id parameter or GOOGLE_ADS_DEFAULT_CUSTOMER_ID "
                                \o "environment variable required"))
            ELSE Returned([customerId |-> customerId] @@ enforceLimit(query, p.limit))

\* result[k] = v on the properties of an object, in insertion order
Assign(props, k, v) ==
    IF \E i \in 1..Len(props) : props[i][1] = k
    THEN [i \in 1..Len(props) |-> IF props[i][1] = k THEN <<k, v>> ELSE props[i]]
    ELSE Append(props, <<k, v>>)

\* Object.assign(result, more) on the properties
RECURSIVE AssignAll(_, _)
AssignAll(props, more) ==
    IF more = <<>> THEN props
    ELSE AssignAll(Assign(props, more[1][1], more[1][2]), Tail(more))

endsWith(s, suffix) ==
    Len(suffix) <= Len(s) /\ SubSeq(s, Len(s) - Len(suffix) + 1, Len(s)) = suffix

\* n / d: the integer when d divides n, the fraction as written otherwise
Quotient(n, d) == IF n % d = 0 THEN Num(n \div d) ELSE [t |-> "num", n |-> n, over |-> d]

\* what one entry of the row adds to the result
flattenEntry(result, key, value, newKey, nested) ==
    IF value.t \in {"null", "undef"} THEN Assign(result, newKey, Null)
    ELSE IF value.t = "obj" THEN AssignAll(result, nested)
    ELSE IF value.t = "arr" THEN Assign(result, newKey, value)
    ELSE IF endsWith(key, "_micros") /\ value.t = "num"
    THEN Assign(Assign(result, replace(newKey, "_micros", Str("")), Quotient(value.n, 1000000)),
                newKey, value)
    ELSE Assign(result, newKey, value)

RECURSIVE flattenEntries(_, _, _)
\* the for loop of flattenRow over Object.entries(row)
flattenEntries(entries, prefix, result) ==
    IF entries = <<>> THEN result
    ELSE flattenEntries(Tail(entries), prefix,
            flattenEntry(result, entries[1][1], entries[1][2],
                         IF prefix # "" THEN prefix \o "." \o entries[1][1] ELSE entries[1][1],
                         IF entries[1][2].t = "obj"
                         THEN flattenEntries(entries[1][2].props,
                                             IF prefix # "" THEN prefix \o "." \o entries[1][1]
                                             ELSE entries[1][1], <<>>)
                         ELSE <<>>))

\* lines 300-327: the properties of the flat object
flattenRow(row, prefix) == flattenEntries(row.props, prefix, <<>>)

-----------------------------------------------------------------------------
(* tools/mutate.js *)

\* lines 79-84: the destructured parameters with their defaults
mutateArgs(p, e) ==
    [customer_id |-> IF p.customer_id = Undef THEN e["GOOGLE_ADS_CUSTOMER_ID"] ELSE p.customer_id,
     operations |-> p.operations,
     partial_failure |-> IF p.partial_failure = Undef THEN Bool(TRUE) ELSE p.partial_failure,
     dry_run |-> IF p.dry_run = Undef THEN Bool(TRUE) ELSE p.dry_run]

\* mutateChecks without the test for an empty operations array
mutateChecksAllowEmpty(a) ==
    IF ~Truthy(a.customer_id)
    THEN "customer_id is required (either as parameter or GOOGLE_ADS_CUSTOMER_ID env var)"
    ELSE IF ~Truthy(a.operations) \/ a.operations.t # "arr"
    THEN "operations array is required and must contain at least one operation"
    ELSE ""

\* lines 88-94 and 145-157: the message of the failed check, "" when both pass
mutateChecks(a) ==
    IF ~Truthy(a.customer_id)
    THEN "customer_id is required (either as parameter or GOOGLE_ADS_CUSTOMER_ID env var)"
    ELSE IF ~Truthy(a.operations) \/ a.operations.t # "arr" \/ Len(a.operations.a) = 0
    THEN "operations array is required and must contain at least one operation"
    ELSE ""

-----------------------------------------------------------------------------
(* tools/list-accounts.js *)

\* listAccountsChecks taking the default account before the login account
listAccountsChecksDefaultFirst(p, e) ==
    LET includeManagers == OrElse(p.include_manager_accounts, Bool(FALSE))
        customerId == OrElse(e["GOOGLE_ADS_DEFAULT_CUSTOMER_ID"], e["GOOGLE_ADS_LOGIN_CUSTOMER_ID"])
        filters == IF Truthy(includeManagers) THEN "" ELSE "WHERE customer_client.manager = false"
    IN IF ~Truthy(customerId)
       THEN Threw(NewError("Either GOOGLE_ADS_LOGIN_CUSTOMER_ID or "
                           \o "GOOGLE_ADS_DEFAULT_CUSTOMER_ID must be set"))
       ELSE Returned([customerId |-> customerId,
                      query |-> buildQuery(TEMPLATES.LIST_ACCOUNTS,
                                           [NoSubstitutions EXCEPT !.filters = Str(filters)])])

\* lines 13-30: Threw(error) or Returned(the account and the query text)
listAccountsChecks(p, e) ==
    LET includeManagers == OrElse(p.include_manager_accounts, Bool(FALSE))
        customerId == OrElse(e["GOOGLE_ADS_LOGIN_CUSTOMER_ID"], e["GOOGLE_ADS_DEFAULT_CUSTOMER_ID"])
        filters == IF Truthy(includeManagers) THEN "" ELSE "WHERE customer_client.manager = false"
    IN IF ~Truthy(customerId)
       THEN Threw(NewError("Either GOOGLE_ADS_LOGIN_CUSTOMER_ID or "
                           \o "GOOGLE_ADS_DEFAULT_CUSTOMER_ID must be set"))
       ELSE Returned([customerId |-> customerId,
                      query |-> buildQuery(TEMPLATES.LIST_ACCOUNTS,
                                           [NoSubstitutions EXCEPT !.filters = Str(filters)])])

-----------------------------------------------------------------------------
(* Bounds and the values the environment supplies *)

\* requests handled per run of the process
MaxHandled == 2

OptionalValue(v) ==
    CASE v = "GOOGLE_ADS_LOGIN_CUSTOMER_ID" -> Str("1111111111")
      [] v = "GOOGLE_ADS_DEFAULT_CUSTOMER_ID" -> Str("1234567890")
      [] v = "GOOGLE_ADS_CUSTOMER_ID" -> Str("9999999999")

\* every credential unset, empty or set; every account variable unset or set
Environments ==
    {[v \in ENV_VARS |-> IF v \in OPTIONAL_ENV_VARS
                         THEN (IF o[v] THEN OptionalValue(v) ELSE Undef)
                         ELSE c[v]] :
        c \in [ENV_VARS \ OPTIONAL_ENV_VARS -> {Undef, Str(""), Str("secret")}],
        o \in [OPTIONAL_ENV_VARS -> BOOLEAN]}

\* the arguments of a request; given = FALSE when the request has none
NoArguments ==
    [given |-> FALSE, customer_id |-> Undef, query |-> Undef, limit |-> Undef,
     operations |-> Undef, partial_failure |-> Undef, dry_run |-> Undef,
     include_manager_accounts |-> Undef]

Arguments == [NoArguments EXCEPT !.given = TRUE]

CustomerIds == {Undef, Str("5555555555")}

\* texts that pass every check, before the LIMIT handling
AcceptedHeads == {"SELECT id FROM c", "  select id from c", "SELECTED"}

QueryTails ==
    {"", " LIMIT 5", " limit 10000", " LIMIT 10001", "\nLimit  20000 ", " XLIMIT 20000",
     " LIMIT"}

RejectedTexts ==
    {"", "  \n", "SELECT last_Update_date FROM c", "SELECT id FROM c; DELETE x LIMIT 5",
     "REMOVE c", "SHOW c LIMIT 5", "mutate SELECT", " WITH x SELECT id FROM c"}

AcceptedQueries == {Str(h \o t) : h \in AcceptedHeads, t \in QueryTails}

RejectedQueries == {Undef, Null, Num(5), Arr(<<>>)} \cup {Str(q) : q \in RejectedTexts}

LimitValues == {Undef, Num(0), Num(-5), Num(250), Num(10000), Num(10001)}

Operation == Obj("Object", <<<<"entity", Str("campaign")>>, <<"operation", Str("update")>>>>)

UsableOperations == {Arr(<<Operation>>), Arr(<<Operation, Operation>>)}

UnusableOperations == {Undef, Null, Str("ops"), Operation, Arr(<<>>)}

DryRunValues == {Undef, Bool(TRUE), Bool(FALSE), Null, Num(0)}

PartialFailureValues == {Undef, Bool(FALSE)}

\* the limit varies where a query text reaches the LIMIT handling
QueryParams ==
    {NoArguments}
    \cup {[Arguments EXCEPT !.query = q, !.customer_id = c, !.limit = l] :
             q \in AcceptedQueries, c \in CustomerIds, l \in LimitValues}
    \cup {[Arguments EXCEPT !.query = q, !.customer_id = c] :
             q \in RejectedQueries, c \in CustomerIds}

\* the two flags vary where the operations reach the remote call
MutateParams ==
    {NoArguments}
    \cup {[Arguments EXCEPT !.operations = o, !.customer_id = c, !.dry_run = d,
                            !.partial_failure = pf] :
             o \in UsableOperations, c \in CustomerIds, d \in DryRunValues,
             pf \in PartialFailureValues}
    \cup {[Arguments EXCEPT !.operations = o, !.customer_id = c] :
             o \in UnusableOperations, c \in CustomerIds}

ListAccountsParams ==
    {NoArguments} \cup
    {[Arguments EXCEPT !.include_manager_accounts = m] : m \in {Undef, Bool(TRUE), Bool(FALSE)}}

\* what the remote client resolves with: the rows, each reduced to its
\* customer_client.manager flag
RemoteResults == {<<>>, <<FALSE, TRUE>>}

\* what the remote client rejects with: an Error, a gRPC-style error with a
\* code, and the API failure object with its errors array
RemoteErrors ==
    {NewError("Request failed"),
     Obj("Error", <<<<"stack", Str("Error: 8 RESOURCE_EXHAUSTED: quota exceeded")>>,
                    <<"message", Str("8 RESOURCE_EXHAUSTED: quota exceeded")>>,
                    <<"code", Num(8)>>>>),
     Obj("GoogleAdsFailure", <<<<"errors", Arr(<<Obj("Object",
            <<<<"message", Str("AUTHENTICATION_ERROR: token expired")>>>>)>>)>>>>)}

-----------------------------------------------------------------------------
(* The server process *)

None == [kind |-> "none"]
ThrewOut(v) == [kind |-> "threw", value |-> v]
ReturnedOut(v) == [kind |-> "returned", value |-> v]

QueryCall(customer, text) ==
    [method |-> "query", customer |-> customer, query |-> text,
     operations |-> Undef, partialFailure |-> Undef, validateOnly |-> Undef]

MutateCall(customer, a) ==
    [method |-> "mutateResources", customer |-> customer, query |-> "",
     operations |-> a.operations, partialFailure |-> a.partial_failure,
     validateOnly |-> a.dry_run]

Init ==
    /\ env \in Environments
    /\ phase = "loading"
    /\ exitCode = -1
    /\ cachedClient = 0
    /\ constructed = 0
    /\ pc = "idle"
    /\ tool = ""
    /\ params = NoArguments
    /\ calls = <<>>
    /\ outcome = None
    /\ handled = 0

\* index.js lines 449-454: the module body up to the environment check
Startup ==
    /\ phase = "loading"
    /\ IF validateEnvironment(env).valid
       THEN phase' = "created" /\ UNCHANGED exitCode
       ELSE phase' = "exited" /\ exitCode' = 1
    /\ UNCHANGED <<env, cachedClient, constructed, pc, tool, params, calls, outcome, handled>>

\* index.js lines 607-612: main() connects the transport
Connect ==
    /\ phase = "created"
    /\ phase' = "serving"
    /\ UNCHANGED <<env, exitCode, cachedClient, constructed, pc, tool, params, calls,
                   outcome, handled>>

\* index.js lines 614-617: connecting fails
ConnectFails ==
    /\ phase = "created"
    /\ phase' = "exited"
    /\ exitCode' = 1
    /\ UNCHANGED <<env, cachedClient, constructed, pc, tool, params, calls, outcome, handled>>

\* index.js lines 544-546, 573-604: a list, prompt or resource request
HandleOther ==
    /\ phase = "serving"
    /\ handled < MaxHandled
    /\ handled' = handled + 1
    /\ UNCHANGED <<env, phase, exitCode, cachedClient, constructed, pc, tool, params,
                   calls, outcome>>

\* the handler from getCustomerClient on: g is what obtaining the client gave
\* (or the failed check); errors go through formatError
Proceed(g, call) ==
    /\ cachedClient' = g.cache
    /\ constructed' = g.count
    /\ IF g.res.threw
       THEN /\ pc' = "done"
            /\ calls' = <<>>
            /\ outcome' = ThrewOut(formatError(g.res.value))
       ELSE /\ pc' = "awaiting"
            /\ calls' = <<[call EXCEPT !.customer = g.res.value]>>
            /\ outcome' = None

\* the synchronous part of a handler: the checks gave r, then the client is fetched
\* and the call is issued through it
Begin(name, p, r, ctorOk, call) ==
    /\ tool' = name
    /\ params' = p
    /\ handled' = handled + 1
    /\ UNCHANGED <<env, phase, exitCode>>
    /\ Proceed(IF r.threw THEN [res |-> r, cache |-> cachedClient, count |-> constructed]
               ELSE getCustomerClient(env, cachedClient, constructed, ctorOk,
                                      r.value.customerId),
               call)

\* tools/list-accounts.js lines 11-33
listAccounts(p, ctorOk) ==
    /\ phase = "serving" /\ pc = "idle" /\ handled < MaxHandled
    /\ LET r == listAccountsChecks(p, env)
           call == QueryCall(Undef, r.value.query)
       IN Begin("list_accounts", p, r, ctorOk, call)

\* tools/gaql-query.js lines 201-256
runGaqlQuery(p, ctorOk) ==
    /\ phase = "serving" /\ pc = "idle" /\ handled < MaxHandled
    /\ LET r == queryChecks(p, env)
           call == QueryCall(Undef, r.value.finalQuery)
       IN Begin("query", p, r, ctorOk, call)

\* tools/mutate.js lines 78-102
mutate(p, ctorOk) ==
    /\ phase = "serving" /\ pc = "idle" /\ handled < MaxHandled
    /\ IF ~p.given
       THEN /\ tool' = "mutate" /\ params' = p /\ handled' = handled + 1
            /\ pc' = "done" /\ calls' = <<>>
            /\ outcome' = ThrewOut(TypeError("Cannot destructure property 'customer_id' of "
                                             \o "'params' as it is undefined."))
            /\ UNCHANGED <<env, phase, exitCode, cachedClient, constructed>>
       ELSE LET a == mutateArgs(p, env)
                r == IF mutateChecks(a) # "" THEN Threw(NewError(mutateChecks(a)))
                     ELSE Returned([customerId |-> a.customer_id])
                call == MutateCall(Undef, a)
            IN Begin("mutate", p, r, ctorOk, call)

\* the second copy of tools/mutate.js (lines 136-166): failed
\* checks and failures are returned as plain results, not thrown
mutatePlain(p, ctorOk) ==
    /\ phase = "serving" /\ pc = "idle" /\ handled < MaxHandled
    /\ tool' = "mutate_plain" /\ params' = p /\ handled' = handled + 1
    /\ UNCHANGED <<env, phase, exitCode>>
    /\ IF ~p.given
       THEN /\ pc' = "done" /\ calls' = <<>>
            /\ outcome' = ThrewOut(TypeError("Cannot destructure property 'customer_id' of "
                                             \o "'params' as it is undefined."))
            /\ UNCHANGED <<cachedClient, constructed>>
       ELSE LET a == mutateArgs(p, env)
            IN IF mutateChecks(a) # ""
               THEN /\ pc' = "done" /\ calls' = <<>>
                    /\ outcome' = ReturnedOut([success |-> FALSE, error |-> Str(mutateChecks(a))])
                    /\ UNCHANGED <<cachedClient, constructed>>
               ELSE LET g == getCustomerClient(env, cachedClient, constructed, ctorOk,
                                               a.customer_id)
                    IN /\ cachedClient' = g.cache
                       /\ constructed' = g.count
                       /\ IF g.res.threw
                          THEN /\ pc' = "done" /\ calls' = <<>>
                               /\ outcome' = ReturnedOut([success |-> FALSE, dry_run |-> a.dry_run,
                                                 error |-> Get(g.res.value, "message"),
                                                 error_details |-> Null])
                          ELSE /\ pc' = "awaiting"
                               /\ calls' = <<MutateCall(g.res.value, a)>>
                               /\ outcome' = None

\* number of TRUE entries of a sequence of flags
RECURSIVE CountTrue(_)
CountTrue(flags) ==
    IF Len(flags) = 0 THEN 0 ELSE (IF flags[1] THEN 1 ELSE 0) + CountTrue(Tail(flags))

\* tools/gaql-query.js lines 268-285: the metadata of the query tool's result
querySuccess(c, rows) ==
    [success |-> TRUE,
     metadata |-> [customer_id |-> c.customerId,
                   row_count |-> Len(rows),
                   limit_applied |-> c.limit,
                   query_truncated |-> Len(rows) >= c.limit,
                   query_preview |-> IF Len(c.finalQuery) > 200
                                     THEN SubSeq(c.finalQuery, 1, 200) \o "..."
                                     ELSE c.finalQuery]]

\* what the handler returns once the remote call has resolved with rows:
\* the metadata of the success envelope
successOf(name, p, e, rows) ==
    CASE name = "list_accounts" ->
            [success |-> TRUE,
             metadata |-> [totalAccounts |-> Len(rows),
                           clientAccounts |-> Len(rows) - CountTrue(rows),
                           managerAccounts |-> CountTrue(rows)]]
      [] name = "query" -> querySuccess(queryChecks(p, e).value, rows)
      [] name = "mutate" ->
            LET a == mutateArgs(p, e)
            IN [success |-> TRUE,
                message |-> IF Truthy(a.dry_run) THEN "Validation successful - no changes made"
                            ELSE "Mutations applied successfully",
                metadata |-> [dry_run |-> a.dry_run,
                              operations_count |-> Len(a.operations.a),
                              customer_id |-> a.customer_id]]
      [] name = "mutate_plain" ->
            LET a == mutateArgs(p, e)
            IN [success |-> TRUE,
                dry_run |-> a.dry_run,
                message |-> IF Truthy(a.dry_run) THEN "Validation successful - no changes made"
                            ELSE "Mutations applied successfully",
                operations_count |-> Len(a.operations.a)]

\* the awaited remote call resolves
RemoteReturns(rows) ==
    /\ pc = "awaiting"
    /\ pc' = "done"
    /\ outcome' = ReturnedOut(successOf(tool, params, env, rows))
    /\ UNCHANGED <<env, phase, exitCode, cachedClient, constructed, tool, params, calls, handled>>

\* the catch block of a handler, entered with the value the remote call rejected with
catchOf(name, p, e, error) ==
    IF name = "mutate_plain"
    THEN IF error.t \in {"undef", "null"}
         THEN ThrewOut(TypeError("Cannot read properties of " \o ToStringJS(error)))
         ELSE IF Get(error, "message").t = "throws"
         THEN ThrewOut(NewError(Get(error, "message").s))
         ELSE IF Get(error, "errors").t = "throws"
         THEN ThrewOut(NewError(Get(error, "errors").s))
         ELSE ReturnedOut([success |-> FALSE, dry_run |-> mutateArgs(p, e).dry_run,
                           error |-> Get(error, "message"),
                           error_details |-> OrElse(Get(error, "errors"), Null)])
    ELSE ThrewOut(formatError(error))

\* a handler that issues the remote call again when it fails
RemoteThrowsRetry(error) ==
    /\ pc = "awaiting"
    /\ IF Len(calls) < 2
       THEN pc' = "awaiting" /\ calls' = Append(calls, calls[1]) /\ UNCHANGED outcome
       ELSE pc' = "done" /\ outcome' = catchOf(tool, params, env, error) /\ UNCHANGED calls
    /\ UNCHANGED <<env, phase, exitCode, cachedClient, constructed, tool, params, handled>>

\* the awaited remote call rejects
RemoteThrows(error) ==
    /\ pc = "awaiting"
    /\ pc' = "done"
    /\ outcome' = catchOf(tool, params, env, error)
    /\ UNCHANGED <<env, phase, exitCode, cachedClient, constructed, tool, params, calls, handled>>

\* the response or the error goes back to the caller
Respond ==
    /\ pc = "done"
    /\ pc' = "idle"
    /\ tool' = ""
    /\ params' = NoArguments
    /\ calls' = <<>>
    /\ outcome' = None
    /\ UNCHANGED <<env, phase, exitCode, cachedClient, constructed, handled>>

\* whether the GoogleAdsApi constructor returns; it runs only while nothing is cached
ConstructorOutcomes == IF cachedClient = 0 THEN BOOLEAN ELSE {TRUE}

Next ==
    \/ Startup
    \/ Connect
    \/ ConnectFails
    \/ HandleOther
    \/ \E p \in ListAccountsParams, ctorOk \in ConstructorOutcomes : listAccounts(p, ctorOk)
    \/ \E p \in QueryParams, ctorOk \in ConstructorOutcomes : runGaqlQuery(p, ctorOk)
    \/ \E p \in MutateParams, ctorOk \in ConstructorOutcomes : mutate(p, ctorOk)
    \/ \E p \in MutateParams, ctorOk \in ConstructorOutcomes : mutatePlain(p, ctorOk)
    \/ \E rows \in RemoteResults : RemoteReturns(rows)
    \/ \E error \in RemoteErrors : RemoteThrows(error)
    \/ Respond

Spec == Init /\ [][Next]_vars

TypeOK ==
    /\ phase \in {"loading", "exited", "created", "serving"}
    /\ pc \in {"idle", "awaiting", "done"}
    /\ handled \in 0..MaxHandled
    /\ Len(calls) <= 2

-----------------------------------------------------------------------------
(* Properties of the server process *)

RemoteCalls(method) == {i \in 1..Len(calls) : calls[i].method = method}

\* the invocation ended in an error: thrown, or returned with success = false
EndsInError ==
    /\ pc = "done"
    /\ \/ outcome.kind = "threw"
       \/ outcome.kind = "returned" /\ ~outcome.value.success

\* the cases of C1: no usable query text, a mutation keyword, no SELECT, no account
QueryMissing(p) == p.query.t # "str" \/ trim(p.query.s) = ""
QueryHasKeyword(p) ==
    /\ p.query.t = "str"
    /\ \E k \in {"create", "update", "remove", "mutate", "delete"} :
          includes(toLowerCase(p.query.s), k)
QueryNotSelect(p) ==
    p.query.t = "str" /\ toUpperCase(SubSeq(trim(p.query.s), 1, 6)) # "SELECT"
QueryNoAccount(p, e) ==
    ~Truthy(p.customer_id) /\ ~Truthy(e["GOOGLE_ADS_DEFAULT_CUSTOMER_ID"])
QueryRejected(p, e) ==
    QueryMissing(p) \/ QueryHasKeyword(p) \/ QueryNotSelect(p) \/ QueryNoAccount(p, e)

\* C1: an invocation of the query tool whose query is missing, not a string,
\* empty or blank, contains a mutation keyword in any letter case, does not
\* start with SELECT, or has no customer id available, ends in an error and
\* has made no remote call.
C1_RejectedQueryMakesNoCall ==
    (tool = "query" /\ QueryRejected(params, env)) =>
        (Len(calls) = 0 /\ EndsInError /\ outcome.kind = "threw")

\* a query rejected only because of a keyword written in mixed case has ended
C1_Witness ==
    /\ tool = "query" /\ pc = "done"
    /\ QueryHasKeyword(params)
    /\ ~QueryMissing(params) /\ ~QueryNotSelect(params) /\ ~QueryNoAccount(params, env)
    /\ ~includes(params.query.s, "update")
    /\ Len(calls) = 0

IsMutateTool == tool \in {"mutate", "mutate_plain"}

\* C2: the mutate tool defaults to dry-run: with dry_run omitted the remote
\* call carries validateOnly = true, and a remote call whose validateOnly is
\* not true is made only when the caller passed dry_run = false.
C2_DryRunUnlessExplicitFalse ==
    \A i \in RemoteCalls("mutateResources") :
        /\ params.dry_run = Undef => calls[i].validateOnly = Bool(TRUE)
        /\ calls[i].validateOnly # Bool(TRUE) => params.dry_run = Bool(FALSE)

\* the cases of C3
OperationsUnusable(p) ==
    p.operations.t # "arr" \/ Len(p.operations.a) = 0
MutateNoAccount(p, e) ==
    ~Truthy(p.customer_id) /\ ~Truthy(e["GOOGLE_ADS_CUSTOMER_ID"])

\* C3: an invocation of the mutate tool whose operations are absent, not an
\* array or an empty array, or that has no customer id available, ends in an
\* error and has made no remote call.
C3_RejectedMutateMakesNoCall ==
    (IsMutateTool /\ (OperationsUnusable(params) \/ MutateNoAccount(params, env))) =>
        (Len(calls) = 0 /\ EndsInError)

\* an invocation with an empty operations array and an account has ended
C3_Witness ==
    /\ IsMutateTool /\ pc = "done"
    /\ params.operations = Arr(<<>>)
    /\ ~MutateNoAccount(params, env)
    /\ Len(calls) = 0

\* the limit parameter as C4 reads it: 100 when absent, else clamped to [1, 10000]
ClampedLimit(l) ==
    IF l = Undef THEN 100
    ELSE IF l.n < 1 THEN 1 ELSE IF l.n > 10000 THEN 10000 ELSE l.n

\* C4: the query text sent carries a LIMIT clause of at most 10000: without a
\* LIMIT clause in the caller's query, LIMIT n is appended with n the limit
\* parameter clamped to [1, 10000] (100 when absent); with one, a value above
\* 10000 is replaced by 10000 and any other value is left unchanged.
C4_LimitEnforced ==
    (tool = "query" /\ Len(calls) = 1) =>
        LET q == trim(params.query.s)
            sent == calls[1].query
            had == LimitMatch(q)
        IN /\ LimitMatch(sent).from # 0
           /\ parseInt(LimitMatch(sent).digits) <= 10000
           /\ had.from = 0 => sent = q \o " LIMIT " \o ToString(ClampedLimit(params.limit))
           /\ (had.from # 0 /\ parseInt(had.digits) <= 10000) => sent = q
           /\ (had.from # 0 /\ parseInt(had.digits) > 10000) =>
                 /\ parseInt(LimitMatch(sent).digits) = 10000
                 /\ SubSeq(sent, 1, had.from - 1) = SubSeq(q, 1, had.from - 1)

\* every synchronous check of the invocation passed (parameters and account)
ChecksPass ==
    CASE tool = "list_accounts" -> ~listAccountsChecks(params, env).threw
      [] tool = "query" -> ~queryChecks(params, env).threw
      [] IsMutateTool -> params.given /\ mutateChecks(mutateArgs(params, env)) = ""
      [] OTHER -> FALSE

\* the text of the error the invocation ended with
OutcomeText ==
    IF outcome.kind = "threw" THEN outcome.value.message
    ELSE IF outcome.kind = "returned" /\ ~outcome.value.success THEN outcome.value.error.s
    ELSE ""

C6_ClientBuiltOnce ==
    /\ [](constructed <= 1)
    /\ [](\A i \in 1..Len(calls) : calls[i].customer.client = cachedClient /\ cachedClient # 0)
    /\ [][cachedClient # 0 => cachedClient' = cachedClient]_vars

\* a second invocation is awaiting its call through the one client built so far
C6_Witness ==
    /\ handled = 2 /\ pc = "awaiting"
    /\ constructed = 1 /\ calls[1].customer.client = 1

MissingCredential ==
    \E i \in 1..Len(REQUIRED_ENV_VARS) : env[REQUIRED_ENV_VARS[i]] \in {Undef, Str("")}

\* C7: with a required credential unset or empty the process, once its
\* start-up check has run, has exited with status 1; it never connects the
\* transport and never handles a request.
C7_MissingCredentialNeverServes ==
    MissingCredential =>
        /\ phase \in {"loading", "exited"}
        /\ phase = "exited" => exitCode = 1
        /\ handled = 0 /\ pc = "idle" /\ Len(calls) = 0 /\ constructed = 0

\* the process has exited because a credential is set but empty
C7_Witness ==
    /\ phase = "exited" /\ exitCode = 1
    /\ \E i \in 1..Len(REQUIRED_ENV_VARS) : env[REQUIRED_ENV_VARS[i]] = Str("")
    /\ \A i \in 1..Len(REQUIRED_ENV_VARS) : env[REQUIRED_ENV_VARS[i]] # Undef

-----------------------------------------------------------------------------
(* formatError on its own: the values it may be handed *)

FormatMessages ==
    {"Request failed", "customer_id is required", "Invalid customer id", "invalid Required",
     "RATE_LIMIT_EXCEEDED", "rate_limit Quota", "quota required", "daily quota used",
     "AUTHENTICATION_ERROR", "Invalid credentials", "unauthorized quota", "AUTH expired",
     "[object Object]", "{}"}

\* new <ctor>(message) with a code property
CodedError(ctor, message, code) ==
    Obj(ctor, <<<<"stack", Str(ctor \o ": " \o message)>>, <<"message", Str(message)>>,
                <<"code", code>>>>)

Plain(props) == Obj("Object", props)

FailureItems ==
    <<Str("first"), Plain(<<<<"message", Str("quota hit")>>>>),
      Plain(<<<<"error_message", Str("em")>>>>),
      Plain(<<<<"errors", Arr(<<Plain(<<<<"message", Str("a")>>>>),
                                Plain(<<<<"error_message", Str("b")>>>>),
                                Plain(<<<<"code", Num(3)>>>>), Null>>)>>>>),
      Plain(<<<<"code", Num(9)>>>>), Null>>

ErrorItems ==
    <<Str("x"), Plain(<<<<"message", Str("AUTHENTICATION_ERROR")>>>>),
      Plain(<<<<"error_message", Str("y")>>>>), Plain(<<<<"code", Num(1)>>>>)>>

FormatErrors ==
    {Undef, Null, Num(42), Str("")}
    \cup {Str(m) : m \in FormatMessages}
    \cup {NewError(m) : m \in FormatMessages}
    \cup {Obj("Error", <<<<"stack", Str("Error")>>>>)}
    \cup {CodedError("TypeError", m, Num(7)) :
             m \in {"Request failed", "daily quota used", "AUTH expired"}}
    \cup {CodedError("Error", "no auth", Str("E_AUTH"))}
    \cup {Plain(<<>>), Obj("none", <<>>),
          Plain(<<<<"message", Throws("boom")>>>>),
          Plain(<<<<"details", Throws("boom")>>>>),
          Plain(<<<<"message", Str("plain failure")>>, <<"name", Throws("boom")>>>>),
          Plain(<<<<"message", Num(42)>>>>),
          Plain(<<<<"details", Str("quota details")>>>>),
          Plain(<<<<"details", Num(7)>>>>),
          Plain(<<<<"data", Throws("boom")>>>>),
          Plain(<<<<"code", Num(5)>>, <<"info", Plain(<<<<"k", Str("v")>>>>)>>,
                  <<"list", Arr(<<Num(1), Null, Plain(<<>>)>>)>>>>)}
    \cup {Obj("GoogleAdsFailure", <<<<"failures", f>>>>) :
             f \in {Arr(FailureItems), Arr(<<>>), Str("not an array"),
                    Arr(<<Plain(<<<<"errors", Str("oops")>>>>)>>),
                    Arr(<<Plain(<<<<"message", Str("required field missing")>>>>)>>)}}
    \cup {Obj("GoogleAdsFailure", <<<<"errors", f>>>>) : f \in {Arr(ErrorItems), Arr(<<>>)}}
    \cup {Plain(<<<<"message", Str("from message")>>, <<"details", Str("from details")>>>>),
          Plain(<<<<"details", Str("from details")>>, <<"failures", Arr(<<Str("from failures")>>)>>>>),
          Plain(<<<<"failures", Arr(<<Str("from failures")>>)>>,
                  <<"errors", Arr(<<Str("from errors")>>)>>>>),
          Obj("GoogleAdsError", <<<<"message", Str("")>>, <<"errors", Arr(<<Str("from errors")>>)>>>>)}

NoEnvironment == [v \in ENV_VARS |-> Undef]

InitFormat ==
    /\ env = NoEnvironment
    /\ phase = "unit"
    /\ exitCode = -1
    /\ cachedClient = 0
    /\ constructed = 0
    /\ pc = "idle"
    /\ tool = "formatError"
    /\ params \in [first : FormatErrors, second : FormatErrors]
    /\ calls = <<>>
    /\ outcome = None
    /\ handled = 0

\* formatError is applied to each of the two values
ApplyFormatError ==
    /\ tool = "formatError" /\ pc = "idle"
    /\ pc' = "done"
    /\ outcome' = [kind |-> "threw",
                   first |-> formatError(params.first),
                   second |-> formatError(params.second)]
    /\ UNCHANGED <<env, phase, exitCode, cachedClient, constructed, tool, params, calls, handled>>

NextFormat == ApplyFormatError

SpecFormat == InitFormat /\ [][NextFormat]_vars

Formatted == tool = "formatError" /\ pc = "done"

\* C8: formatError never returns normally: for every value, null, undefined,
\* strings, Errors, objects without properties and objects whose property
\* reads throw included, what it throws is a classified protocol error.
C8_AlwaysThrowsMcpError ==
    Formatted => (outcome.first.t = "McpError" /\ outcome.second.t = "McpError")

\* no read of a property of the value throws
Readable(e) ==
    e.t = "obj" => \A i \in 1..Len(e.props) : e.props[i][2].t # "throws"

\* the rules of C9, in their order
ClassificationRules ==
    <<[kind |-> "params", needles |-> {"required", "Invalid"}],
      [kind |-> "rate", needles |-> {"RATE_LIMIT", "quota"}],
      [kind |-> "auth", needles |-> {"AUTHENTICATION", "credentials", "auth"}]>>

ExpectedKind(m) ==
    LET hits == {i \in 1..Len(ClassificationRules) :
                    \E n \in ClassificationRules[i].needles : includes(m, n)}
    IN IF hits = {} THEN "generic"
       ELSE ClassificationRules[CHOOSE i \in hits : \A j \in hits : i <= j].kind

\* the extracted message of e is a string
HasTextMessage(e) == ~FinalMessage(e).threw /\ FinalMessage(e).value.t = "str"

MessageOf(e) == FinalMessage(e).value.s

ClassifiedAsExpected(e, out) ==
    LET m == MessageOf(e)
        name == Get(e, "name")
        code == Get(e, "code")
    IN CASE ExpectedKind(m) = "params" -> out = McpError("InvalidParams", m)
         [] ExpectedKind(m) = "rate" -> out = McpError("InternalError", RATE_LIMIT_MESSAGE)
         [] ExpectedKind(m) = "auth" -> out = McpError("InternalError", AUTH_MESSAGE)
         [] OTHER ->
              /\ out.t = "McpError" /\ out.code = "InternalError"
              /\ includes(out.message, m)
              /\ out.message \notin {RATE_LIMIT_MESSAGE, AUTH_MESSAGE}
              /\ (name.t = "str" /\ name.s \notin {"", "Error"}) =>
                    startsWith(out.message, name.s \o ": " \o m)
              /\ Truthy(code) => includes(out.message, m \o " (code: " \o ToStringJS(code) \o ")")

\* C9: for a value whose properties can be read and whose extracted message
\* is a string, formatError throws the kind of the first matching rule, in the
\* order required/Invalid, RATE_LIMIT/quota, AUTHENTICATION/credentials/auth,
\* generic; the match is case-sensitive.
C9_FirstMatchingRule ==
    Formatted =>
        /\ (Readable(params.first) /\ HasTextMessage(params.first)) =>
              ClassifiedAsExpected(params.first, outcome.first)
        /\ (Readable(params.second) /\ HasTextMessage(params.second)) =>
              ClassifiedAsExpected(params.second, outcome.second)

\* a message matching the first and the second rule was classified by the first,
\* and one that matches a rule only in another letter case went to the generic kind
C9_Witness ==
    /\ Formatted
    /\ params.first = NewError("quota required")
    /\ outcome.first = McpError("InvalidParams", "quota required")
    /\ params.second = Str("AUTH expired")
    /\ outcome.second = McpError("InternalError", "AUTH expired")

\* C10: two values whose extracted messages are both of the rate-limit kind,
\* or both of the auth-failure kind, make formatError throw the same error:
\* the fixed text of the kind, whatever their messages, names and codes.
C10_FixedTextKinds ==
    (Formatted /\ HasTextMessage(params.first) /\ HasTextMessage(params.second)) =>
        LET k1 == ExpectedKind(MessageOf(params.first))
            k2 == ExpectedKind(MessageOf(params.second))
        IN (k1 = k2 /\ k1 \in {"rate", "auth"}) =>
              /\ outcome.first = outcome.second
              /\ outcome.first.message = (IF k1 = "rate" THEN RATE_LIMIT_MESSAGE ELSE AUTH_MESSAGE)

\* two rate-limit errors that differ in message, name and code were formatted
C10_Witness ==
    /\ Formatted
    /\ params.first = CodedError("TypeError", "daily quota used", Num(7))
    /\ params.second = Str("RATE_LIMIT_EXCEEDED")
    /\ outcome.first = outcome.second

-----------------------------------------------------------------------------
(* formatError: where the message comes from *)

\* the sources of C11 in their order of preference; ok: the source is present
\* and not empty for the value e
MessageSources(e) ==
    <<[ok |-> e.t = "str" /\ e.s # "", text |-> e],
      [ok |-> Truthy(Get(e, "message")), text |-> Get(e, "message")],
      [ok |-> Get(e, "details").t = "str" /\ Get(e, "details").s # "",
       text |-> Get(e, "details")],
      [ok |-> Get(e, "failures").t = "arr",
       text |-> IF Get(e, "failures").t = "arr"
                THEN FlattenFailures(Get(e, "failures").a).value ELSE Undef],
      [ok |-> Get(e, "errors").t = "arr",
       text |-> IF Get(e, "errors").t = "arr"
                THEN FlattenErrors(Get(e, "errors").a).value ELSE Undef],
      [ok |-> HasToString(e) /\ ToStringJS(e) \notin {"", "[object Object]"},
       text |-> Str(ToStringJS(e))],
      [ok |-> e.t \notin {"undef", "null"} /\ Truthy(SerializeFallback(e, Str(""))),
       text |-> SerializeFallback(e, Str(""))],
      [ok |-> TRUE, text |-> UnknownFallback(e, Str(""))]>>

FirstSource(e) ==
    CHOOSE k \in 1..8 : MessageSources(e)[k].ok /\ \A j \in 1..(k - 1) : ~MessageSources(e)[j].ok

\* the message of e as C11 states it
PreferredMessage(e) == MessageSources(e)[FirstSource(e)].text

\* the same, with a text that is exactly "{}" or "[object Object]" given up
\* for the generic message
PreferredMessageOrUnknown(e) ==
    IF PreferredMessage(e) \in {Str("{}"), Str("[object Object]")}
    THEN UnknownFallback(e, Str(""))
    ELSE PreferredMessage(e)

\* C11 as stated: where formatError arrives at a message, the message is the
\* text of the first source, in the order string, .message, .details, flattened
\* .failures, flattened .errors, string conversion, JSON of the own properties,
\* generic text, that is present and not empty.
C11_FirstApplicableSource ==
    Formatted =>
        /\ ~FinalMessage(params.first).threw =>
              FinalMessage(params.first).value = PreferredMessage(params.first)
        /\ ~FinalMessage(params.second).threw =>
              FinalMessage(params.second).value = PreferredMessage(params.second)

\* C11, amended: as above, except that a text that is exactly "{}" or
\* "[object Object]", whatever source it came from, is replaced by the generic
\* "Unknown error type" message.
C11_FirstApplicableSourceOrUnknown ==
    Formatted =>
        /\ ~FinalMessage(params.first).threw =>
              FinalMessage(params.first).value = PreferredMessageOrUnknown(params.first)
        /\ ~FinalMessage(params.second).threw =>
              FinalMessage(params.second).value = PreferredMessageOrUnknown(params.second)

\* a value with .message and .details gave its .message, and one with
\* .failures and .errors gave its failures
C11_Witness ==
    /\ Formatted
    /\ params.first = Plain(<<<<"message", Str("from message")>>, <<"details", Str("from details")>>>>)
    /\ outcome.first = McpError("InternalError", "from message")
    /\ params.second = Plain(<<<<"failures", Arr(<<Str("from failures")>>)>>,
                               <<"errors", Arr(<<Str("from errors")>>)>>>>)
    /\ outcome.second = McpError("InternalError", "from failures")

-----------------------------------------------------------------------------
(* Date: local calendar dates, as new Date(year, month, date) builds them *)

\* the number NaN
NaN == [t |-> "nan"]

\* String.prototype.split with a one-character separator
RECURSIVE split(_, _)
split(s, sep) ==
    IF indexOf(s, sep) = 0 THEN <<s>>
    ELSE <<SubSeq(s, 1, indexOf(s, sep) - 1)>> \o split(SubSeq(s, indexOf(s, sep) + 1, Len(s)), sep)

AllDigits(s) == \A i \in 1..Len(s) : IsDigit(CharAt(s, i))

\* Number(s) of a string: blank is 0, decimal digits are their value, words
\* are NaN (signs, fractions, exponents and radix prefixes are not covered)
Number(s) ==
    IF trim(s) = "" THEN Num(0)
    ELSE IF AllDigits(trim(s)) THEN Num(parseInt(trim(s)))
    ELSE NaN

\* element i of a destructured array, undefined past its end
At(a, i) == IF i <= Len(a) THEN a[i] ELSE Undef

\* v - 1, where v is a number, NaN or undefined
MinusOne(v) == IF v.t = "num" THEN Num(v.n - 1) ELSE NaN

\* String.prototype.padStart with a one-character filler
RECURSIVE padStart(_, _, _)
padStart(s, n, c) == IF Len(s) >= n THEN s ELSE padStart(c \o s, n, c)

IsLeapYear(y) == (y % 4 = 0 /\ y % 100 # 0) \/ y % 400 = 0

\* month is 0-based, as getMonth gives it
DaysInMonth(y, month) ==
    IF month = 1 THEN (IF IsLeapYear(y) THEN 29 ELSE 28)
    ELSE IF month \in {3, 5, 8, 10} THEN 30
    ELSE 31

InvalidDate == [valid |-> FALSE, year |-> 0, month |-> 0, date |-> 0]

\* the calendar date that year, month and date denote once months outside
\* 0..11 and days outside the month are carried over
RECURSIVE MakeDay(_, _, _)
MakeDay(year, month, date) ==
    IF month < 0 \/ month > 11 THEN MakeDay(year + month \div 12, month % 12, date)
    ELSE IF date < 1
    THEN (IF month = 0 THEN MakeDay(year - 1, 11, date + 31)
          ELSE MakeDay(year, month - 1, date + DaysInMonth(year, month - 1)))
    ELSE IF date > DaysInMonth(year, month)
    THEN (IF month = 11 THEN MakeDay(year + 1, 0, date - 31)
          ELSE MakeDay(year, month + 1, date - DaysInMonth(year, month)))
    ELSE [valid |-> TRUE, year |-> year, month |-> month, date |-> date]

\* new Date(year, month, date) of numbers, NaN or undefined: years 0..99
\* denote 1900..1999
NewDate(year, month, date) ==
    IF year.t # "num" \/ month.t # "num" \/ date.t # "num" THEN InvalidDate
    ELSE MakeDay(IF year.n \in 0..99 THEN 1900 + year.n ELSE year.n, month.n, date.n)

setDateClamped(d, date) ==
    MakeDay(d.year, d.month, IF date < 1 THEN 1 ELSE date)

\* Date.prototype.setDate on a copy of the valid date d
setDate(d, date) == MakeDay(d.year, d.month, date)

\* formatDate of validateDateRange
formatDate(d) ==
    IF ~d.valid THEN "NaN-NaN-NaN"
    ELSE ToString(d.year) \o "-" \o padStart(ToString(d.month + 1), 2, "0")
         \o "-" \o padStart(ToString(d.date), 2, "0")

\* new Date(year, month - 1, day) of the text split at its dashes
parseLocal(text) ==
    NewDate(Number(At(split(text, "-"), 1)),
            MinusOne(IF Len(split(text, "-")) >= 2 THEN Number(split(text, "-")[2]) ELSE Undef),
            IF Len(split(text, "-")) >= 3 THEN Number(split(text, "-")[3]) ELSE Undef)

\* Object.keys(ranges)
RANGE_NAMES ==
    <<"TODAY", "YESTERDAY", "LAST_7_DAYS", "LAST_14_DAYS", "LAST_30_DAYS", "LAST_90_DAYS",
      "THIS_MONTH", "LAST_MONTH", "CUSTOM">>

\* what ranges inherits from Object.prototype
OBJECT_PROTOTYPE ==
    {"constructor", "toString", "toLocaleString", "valueOf", "hasOwnProperty", "isPrototypeOf",
     "propertyIsEnumerable", "__proto__", "__defineGetter__", "__defineSetter__",
     "__lookupGetter__", "__lookupSetter__"}

customMissingBoth(startDate, endDate) == ~Truthy(startDate) /\ ~Truthy(endDate)

\* !startDate || !endDate
customMissing(startDate, endDate) == ~Truthy(startDate) \/ ~Truthy(endDate)

\* ranges[key]() for an own key of ranges: the pair of dates, or the throw
ranges(key, startDate, endDate, today) ==
    CASE key = "TODAY" -> Returned([start |-> today, end |-> today])
      [] key = "YESTERDAY" ->
           Returned([start |-> setDate(today, today.date - 1), end |-> setDate(today, today.date - 1)])
      [] key = "LAST_7_DAYS" -> Returned([start |-> setDate(today, today.date - 7), end |-> today])
      [] key = "LAST_14_DAYS" -> Returned([start |-> setDate(today, today.date - 14), end |-> today])
      [] key = "LAST_30_DAYS" -> Returned([start |-> setDate(today, today.date - 30), end |-> today])
      [] key = "LAST_90_DAYS" -> Returned([start |-> setDate(today, today.date - 90), end |-> today])
      [] key = "THIS_MONTH" -> Returned([start |-> MakeDay(today.year, today.month, 1), end |-> today])
      [] key = "LAST_MONTH" ->
           Returned([start |-> MakeDay(today.year, today.month - 1, 1),
                     end |-> MakeDay(today.year, today.month, 0)])
      [] key = "CUSTOM" ->
           IF customMissing(startDate, endDate)
           THEN Threw(NewError("start_date and end_date required for CUSTOM range"))
           ELSE IF startDate.t # "str"
           THEN Threw(TypeError("startDate.split is not a function"))
           ELSE IF endDate.t # "str"
           THEN Threw(TypeError("endDate.split is not a function"))
           ELSE Returned([start |-> parseLocal(startDate.s), end |-> parseLocal(endDate.s)])

\* ranges[key]() followed by formatDate(start), for a key found on
\* Object.prototype: none of the inherited members yields dates
inherited(key) ==
    IF key = "__proto__" THEN Threw(TypeError("ranges[range] is not a function"))
    ELSE IF key \in {"__defineGetter__", "__defineSetter__"}
    THEN Threw(TypeError("Object.prototype." \o key \o ": Expecting function"))
    ELSE IF key \in {"__lookupGetter__", "__lookupSetter__"}
    THEN Threw(TypeError("Cannot destructure property 'start' of 'ranges[range](...)' as it is undefined."))
    ELSE Threw(TypeError("Cannot read properties of undefined (reading 'getFullYear')"))

\* { start: formatDate(start), end: formatDate(end) } of what ranges[range]() gave
formatted(r) ==
    IF r.threw THEN r
    ELSE Returned(Plain(<<<<"start", Str(formatDate(r.value.start))>>,
                          <<"end", Str(formatDate(r.value.end))>>>>))

\* now: what new Date() reads from the clock, as year, month (0-based), date
validateDateRange(range, startDate, endDate, now) ==
    IF \E i \in 1..Len(RANGE_NAMES) : RANGE_NAMES[i] = ToStringJS(range)
    THEN formatted(ranges(ToStringJS(range), startDate, endDate,
                          MakeDay(now.year, now.month, now.date)))
    ELSE IF ToStringJS(range) \in OBJECT_PROTOTYPE
    THEN inherited(ToStringJS(range))
    ELSE Threw(NewError("Invalid date_range: " \o ToStringJS(range) \o ". Allowed values: "
                        \o Join(RANGE_NAMES, ", ")))

-----------------------------------------------------------------------------
(* utils/response-format.js: formatSuccess *)

RECURSIVE Spaces(_)
Spaces(n) == IF n <= 0 THEN "" ELSE " " \o Spaces(n - 1)

RECURSIVE JsonText(_, _)
RECURSIVE JsonElements(_, _)
RECURSIVE JsonMembers(_, _, _)

\* the elements of an array, one per line at the given indent
JsonElements(a, indent) ==
    IF Len(a) = 0 THEN ""
    ELSE "\n" \o Spaces(indent)
         \o (IF Stringify(a[1]).t = "undef" THEN "null" ELSE JsonText(a[1], indent))
         \o (IF Len(a) = 1 THEN "" ELSE "," \o JsonElements(Tail(a), indent))

\* the properties of an object, one per line at the given indent; those whose
\* value is undefined are left out
JsonMembers(ps, indent, first) ==
    IF Len(ps) = 0 THEN ""
    ELSE IF Stringify(ps[1][2]).t = "undef" THEN JsonMembers(Tail(ps), indent, first)
    ELSE (IF first THEN "" ELSE ",") \o "\n" \o Spaces(indent) \o "\"" \o ps[1][1] \o "\": "
         \o JsonText(ps[1][2], indent) \o JsonMembers(Tail(ps), indent, FALSE)

\* JSON.stringify(v, null, 2) of a value that is not undefined, written at the given indent
JsonText(v, indent) ==
    IF v.t = "arr"
    THEN (IF Len(v.a) = 0 THEN "[]"
          ELSE "[" \o JsonElements(v.a, indent + 2) \o "\n" \o Spaces(indent) \o "]")
    ELSE IF v.t = "obj"
    THEN (IF JsonMembers(v.props, indent + 2, TRUE) = "" THEN "{}"
          ELSE "{" \o JsonMembers(v.props, indent + 2, TRUE) \o "\n" \o Spaces(indent) \o "}")
    ELSE Stringify(v).s

\* data.length
LengthOf(data) ==
    IF data.t = "arr" THEN Num(Len(data.a))
    ELSE IF data.t = "str" THEN Num(Len(data.s))
    ELSE Get(data, "length")

\* { rowCount: data.length, warnings: [], ...metadata }
mergedMetadata(data, metadata) ==
    Plain(AssignAll(<<<<"rowCount", LengthOf(data)>>, <<"warnings", Arr(<<>>)>>>>,
                    IF metadata.t = "undef" THEN <<>>
                    ELSE IF metadata.t = "obj" THEN metadata.props ELSE <<>>))

\* lines 11-27; o holds summary, data and metadata as the caller passed them
formatSuccess(o) ==
    IF o.data.t \in {"undef", "null"}
    THEN Threw(TypeError("Cannot read properties of " \o ToStringJS(o.data) \o " (reading 'length')"))
    ELSE Returned(Plain(<<<<"content", Arr(<<Plain(<<
            <<"type", Str("text")>>,
            <<"text", Str(JsonText(Plain(<<
                <<"success", Bool(TRUE)>>,
                <<"summary", o.summary>>,
                <<"data", o.data>>,
                <<"metadata", mergedMetadata(o.data, o.metadata)>>>>), 0))>>>>)>>)>>>>))

-----------------------------------------------------------------------------
(* Mutation execution service: executeMutations *)

SUPPORTED_RESOURCE_TYPES ==
    {"campaign_criterion", "ad_group_criterion", "shared_criterion", "campaign", "ad_group",
     "campaign_budget"}

\* v?.[0]
First(v) == IF v.t = "arr" /\ Len(v.a) > 0 THEN v.a[1] ELSE Undef

\* lines 63-73: an entry for every result that has a resource name
RECURSIVE successfulFrom(_, _, _)
successfulFrom(results, operations, index) ==
    IF index >= Len(results) THEN <<>>
    ELSE (IF Truthy(Get(results[index + 1], "resourceName"))
          THEN <<[index |-> index,
                  resource_name |-> Get(results[index + 1], "resourceName"),
                  operation |-> At(operations, index + 1)]>>
          ELSE <<>>)
         \o successfulFrom(results, operations, index + 1)

\* lines 79-83: the entry pushed for one error of the partial failure
failedEntry(error) ==
    [index |-> OrElse(Get(First(Get(Get(error, "location"), "fieldPathElements")), "index"),
                      Num(-1)),
     message |-> Get(error, "message"),
     error_code |-> Get(error, "errorCode")]

\* lines 76-85
RECURSIVE failedFrom(_)
failedFrom(errors) ==
    IF errors = <<>> THEN <<>> ELSE <<failedEntry(Head(errors))>> \o failedFrom(Tail(errors))

\* lines 89-95: the entry pushed for what the try block threw
caughtEntry(error) ==
    [index |-> Num(-1),
     message |-> Get(error, "message"),
     error_code |-> OrElse(Get(error, "code"), Str("UNKNOWN"))]

\* lines 28-60: what the try block has for a response, or what it throws
\* before it has one; answer is how the remote call settled
responseOf(resourceType, answer) ==
    IF resourceType \notin SUPPORTED_RESOURCE_TYPES
    THEN Threw(NewError("Unsupported resource type: " \o resourceType))
    ELSE IF answer.threw THEN answer
    ELSE IF answer.value.t \in {"undef", "null"}
    THEN Threw(TypeError("Cannot read properties of " \o ToStringJS(answer.value)
                         \o " (reading 'results')"))
    ELSE answer

\* lines 62-87: the results of a response
processed(results, response, operations) ==
    LET partial == Get(response, "partial_failure_error")
        errors == OrElse(Get(partial, "errors"), Arr(<<>>))
        failed == IF Truthy(partial) THEN failedFrom(errors.a) ELSE <<>>
    IN [results EXCEPT
            !.successful = IF Truthy(Get(response, "results"))
                           THEN successfulFrom(Get(response, "results").a, operations.a, 0)
                           ELSE <<>>,
            !.failed = failed,
            !.success = (failed = <<>>)]

\* lines 16-98: client is what getCustomerClient gave
executeMutations(client, resourceType, operations, validateOnly, answer) ==
    LET results == [success |-> FALSE,
                    dry_run |-> IF validateOnly = Undef THEN Bool(TRUE) ELSE validateOnly,
                    operations_count |-> Len(operations.a),
                    successful |-> <<>>,
                    failed |-> <<>>,
                    warnings |-> <<>>]
        response == responseOf(resourceType, answer)
    IN IF client.threw THEN client
       ELSE IF response.threw
       THEN Returned([results EXCEPT !.failed = <<caughtEntry(response.value)>>])
       ELSE Returned(processed(results, response.value, operations))

-----------------------------------------------------------------------------
(* utils/validation.js on its own: the arguments of one call *)

MutationTexts ==
    {"", "   \n\t   ", "SELECT id FROM c", "SELECT last_update_date FROM t",
     "SELECT Last_Update_Date FROM t", "CrEaTe campaign", "SELECT * FROM campaign REMOVE",
     "delete then create", "mutate and remove", "MUTATE", "creat e", "upd ate del ete",
     "removeupdate"}

RequiredValues == {Undef, Null, Str(""), Num(0), Bool(FALSE), Str("x")}

RequiredObjects ==
    {Plain(<<>>)} \cup {Plain(<<<<"a", va>>, <<"b", vb>>>>) : va \in RequiredValues, vb \in RequiredValues}

FieldLists == {<<>>, <<"a">>, <<"c">>, <<"a", "b">>, <<"b", "a">>, <<"a", "b", "c">>}

EnumValues ==
    {Undef, Null, Str("ENABLED"), Str("enabled"), Str("1"), Num(1), Str("any"), Str("")}

EnumLists ==
    {<<>>, <<Str("ENABLED"), Str("PAUSED")>>, <<Num(1), Num(2), Num(3)>>, <<Str("1")>>, <<Str("")>>}

EnumLabels == {Undef, Str("status")}

\* readings of the clock: year, month (0-based), date
Clock ==
    {[year |-> 2024, month |-> 2, date |-> 1], [year |-> 2023, month |-> 2, date |-> 1],
     [year |-> 2024, month |-> 0, date |-> 5], [year |-> 2025, month |-> 0, date |-> 1],
     [year |-> 2024, month |-> 11, date |-> 31], [year |-> 2024, month |-> 1, date |-> 29],
     [year |-> 2024, month |-> 6, date |-> 15], [year |-> 2100, month |-> 2, date |-> 1],
     [year |-> 2000, month |-> 2, date |-> 30]}

OtherRanges ==
    {Str(""), Null, Undef, Num(30), Str("last_7_days"), Str("custom"), Str("LAST_WEEK"),
     Str("toString"), Str("constructor"), Str("__proto__")}

DateTexts ==
    {Undef, Null, Str(""), Str("2024-01-01"), Str("2024-01-31"), Str("2024-02-29"),
     Str("2023-12-31"), Str("2024-02-01"), Str("0999-01-01"), Str("0050-06-15"),
     Str("2024-02-30"), Str("2024-6-1"), Str("tomorrow")}

UnusedDates == {Undef, Str("2024-01-01"), Str("2024-02-01")}

DateRangeCalls ==
    {[fn |-> "validateDateRange", range |-> Str(RANGE_NAMES[i]), startDate |-> s, endDate |-> e,
      now |-> n] : i \in 1..(Len(RANGE_NAMES) - 1), s \in UnusedDates, e \in UnusedDates, n \in Clock}
    \cup {[fn |-> "validateDateRange", range |-> r, startDate |-> s, endDate |-> e, now |-> n] :
             r \in OtherRanges, s \in UnusedDates, e \in UnusedDates,
             n \in {[year |-> 2024, month |-> 2, date |-> 1]}}
    \cup {[fn |-> "validateDateRange", range |-> Str("CUSTOM"), startDate |-> s, endDate |-> e,
           now |-> n] : s \in DateTexts, e \in DateTexts,
                        n \in {[year |-> 2024, month |-> 2, date |-> 1],
                               [year |-> 2024, month |-> 11, date |-> 31]}}

\* templates a caller writes, with the placeholders no entry of TEMPLATES has
CallerTemplates ==
    {"SELECT {{SEGMENT_FIELD}}, {{GEO_LEVEL}} FROM geographic_view WHERE metrics.cost_micros >= "
        \o "{{MIN_COST_MICROS}} AND ad_group_criterion.quality_info.quality_score <= "
        \o "{{MAX_QUALITY_SCORE}} AND campaign.id = {{RESOURCE_ID}}",
     "campaign.id, {{METRICS}}"}

QueryTemplates ==
    {TEMPLATES.LIST_ACCOUNTS, TEMPLATES.CAMPAIGN_PERFORMANCE, TEMPLATES.CAMPAIGN_DAILY_SPEND}
    \cup CallerTemplates

Substitutions ==
    {[NoSubstitutions EXCEPT !.metrics = m, !.dates = d, !.minCost = c, !.date = day,
                             !.segmentField = f, !.resourceId = r, !.maxQualityScore = q,
                             !.geoLevel = g] :
        m \in {Undef, Arr(<<Str("clicks"), Str("metrics.impressions")>>)},
        d \in {Undef, [t |-> "obj", start |-> Str("2024-01-01"), end |-> Str("2024-01-31")]},
        c \in {Undef, Num(5)},
        day \in {Undef, Str("2024-03-01")},
        f \in {Undef, Str("segments.product_item_id")},
        r \in {Undef, Num(123)},
        q \in {Undef, Num(4)},
        g \in {Undef, Str("geographic_view.country_criterion_id")}}
    \cup {[NoSubstitutions EXCEPT !.filters = Str("AND campaign.status = 'ENABLED'"),
                                  !.orderBy = Str("metrics.clicks"), !.limit = Num(10),
                                  !.minCost = Num(0), !.statusFilter = Str("ELIGIBLE")]}

\* a caller's template with the four placeholders that have defaults
DefaultsTemplate ==
    "SELECT campaign.id FROM campaign WHERE metrics.impressions >= {{MIN_IMPRESSIONS}} AND "
    \o "metrics.conversions = {{MAX_CONVERSIONS}} {{FILTERS}} ORDER BY {{ORDER_BY}} DESC LIMIT {{LIMIT}}"

DefaultSubstitutions ==
    {[NoSubstitutions EXCEPT !.orderBy = o, !.limit = l, !.minImpressions = i,
                             !.maxConversions = c] :
        o \in {Undef, Str("metrics.clicks")},
        l \in {Undef, Num(0), Num(25)},
        i \in {Undef, Num(0), Num(100)},
        c \in {Undef, Num(0), Num(3)}}

FilterTexts ==
    {"WHERE customer_client.manager = false", "AND campaign.status = 'ENABLED'",
     "AND campaign.name = 'A$$B'", "AND campaign.name LIKE '$&'",
     "AND campaign.name = '{{LIMIT}}'", "AND campaign.name = '{{ORDER_BY}}'"}

FilterSubstitutions == {[NoSubstitutions EXCEPT !.filters = Str(f)] : f \in FilterTexts}

MetricLists ==
    {<<>>, <<Str("clicks")>>, <<Str("cost_micros"), Str("clicks")>>,
     <<Str("metrics.impressions"), Str("clicks")>>, <<Str("clicks"), Str("metrics.ctr"), Str("conversions")>>,
     <<Str("metrics.cost_micros")>>}

MetricSubstitutions == {[NoSubstitutions EXCEPT !.metrics = Arr(m)] : m \in MetricLists}

BuildQueryCalls ==
    {[fn |-> "buildQuery", template |-> t, substitutions |-> p] :
        t \in QueryTemplates, p \in Substitutions}
    \cup {[fn |-> "buildQuery", template |-> DefaultsTemplate, substitutions |-> p] :
             p \in DefaultSubstitutions \cup FilterSubstitutions}
    \cup {[fn |-> "buildQuery", template |-> TEMPLATES.LIST_ACCOUNTS, substitutions |-> p] :
             p \in FilterSubstitutions}
    \cup {[fn |-> "buildQuery", template |-> t, substitutions |-> p] :
             t \in {TEMPLATES.CAMPAIGN_PERFORMANCE, "campaign.id, {{METRICS}}"},
             p \in MetricSubstitutions}

LintTexts ==
    {"", "SELECT campaign.id FROM campaign", "campaign.id FROM campaign",
     "  select campaign.id from campaign  ", "SELECT campaign.id", "selectfrom",
     "SELECT campaign.id FRO M campaign", "SELECT {{METRICS}} FROM campaign",
     "SELECT {{metrics}} FROM campaign", "SELECT {{A1}} FROM campaign", "SELECT {{}} FROM campaign",
     "{{X}}", "SELECT a FROM b WHERE c = '{{START_DATE}}' AND d = '{{END_DATE}}'",
     "SELECT metrics.conversion_value FROM campaign", "SELECT metrics.conversions_value FROM campaign",
     "SELECT segments.date FROM campaign",
     "SELECT segments.product_item_id FROM shopping_performance_view",
     "SELECT ad_group_criterion.keyword.text FROM keyword_view WHERE segments.product_brand = 'x'",
     "UPDATE campaign SET x = 1", "SELECT x\nFROM y"}

ValidateQueryCalls == {[fn |-> "validateQuery", query |-> q] : q \in LintTexts}

\* rows as the remote client returns them
Rows ==
    {Plain(<<>>),
     Plain(<<<<"campaign", Plain(<<<<"id", Str("123")>>, <<"name", Str("Test")>>>>)>>,
             <<"metrics", Plain(<<<<"cost_micros", Num(1500000)>>, <<"clicks", Num(7)>>>>)>>>>),
     Plain(<<<<"campaign", Plain(<<<<"id", Str("123")>>, <<"name", Null>>>>)>>,
             <<"metrics", Plain(<<<<"cost_micros", Null>>>>)>>>>),
     Plain(<<<<"campaign_budget", Plain(<<<<"amount_micros", Num(5000000)>>>>)>>>>),
     Plain(<<<<"metrics", Plain(<<<<"cost_micros", Str("1000000")>>>>)>>>>),
     Plain(<<<<"ad_group", Plain(<<<<"labels", Arr(<<Str("a"), Str("b")>>)>>,
                                   <<"cpc_bid_micros", Num(250000)>>>>)>>>>),
     Plain(<<<<"campaign", Plain(<<<<"target_cpa",
                 Plain(<<<<"target_cpa_micros", Num(3000000)>>>>)>>>>)>>>>),
     Plain(<<<<"cost_micros_summary", Plain(<<<<"total_micros", Num(2000000)>>>>)>>>>),
     Plain(<<<<"cost_micros", Num(0)>>, <<"micros", Num(1)>>>>)}

FlattenRowCalls == {[fn |-> "flattenRow", row |-> r] : r \in Rows}

\* the accounts and the query rows the two tools pass as data
SuccessData ==
    {Arr(<<>>),
     Arr(<<Plain(<<<<"id", Str("1")>>, <<"is_manager", Bool(FALSE)>>>>),
           Plain(<<<<"id", Str("2")>>, <<"is_manager", Bool(TRUE)>>>>)>>),
     Plain(<<<<"rows", Arr(<<Plain(<<<<"campaign.id", Str("123")>>>>)>>)>>,
             <<"fields", Arr(<<Str("campaign.id")>>)>>>>)}

SuccessMetadata ==
    {Undef, Plain(<<>>),
     Plain(<<<<"totalAccounts", Num(2)>>, <<"clientAccounts", Num(1)>>, <<"managerAccounts", Num(1)>>>>),
     Plain(<<<<"rowCount", Num(7)>>>>),
     Plain(<<<<"customer_id", Str("1234567890")>>, <<"rowCount", Num(0)>>>>),
     Plain(<<<<"customer_id", Str("1234567890")>>, <<"row_count", Num(1)>>,
             <<"limit_applied", Num(100)>>, <<"query_truncated", Bool(FALSE)>>>>)}

FormatSuccessCalls ==
    {[fn |-> "formatSuccess", summary |-> Str("Found 2 rows"), data |-> d, metadata |-> m] :
        d \in SuccessData, m \in SuccessMetadata}

\* the operations handed to executeMutations
Operations ==
    Arr(<<Plain(<<<<"resource_name", Str("customers/1/campaigns/10")>>>>),
          Plain(<<<<"resource_name", Str("customers/1/campaigns/11")>>>>),
          Plain(<<<<"resource_name", Str("customers/1/campaigns/12")>>>>)>>)

\* an error of the partial failure that points at operation i
ErrorAt(i) ==
    Plain(<<<<"message", Str("Invalid value")>>, <<"errorCode", Str("RANGE_ERROR")>>,
            <<"location", Plain(<<<<"fieldPathElements",
                                    Arr(<<Plain(<<<<"fieldName", Str("operations")>>,
                                                  <<"index", Num(i)>>>>),
                                          Plain(<<<<"fieldName", Str("update")>>>>)>>)>>>>)>>>>)

\* errors that point at no operation: no location, no path, a path element
\* without an index
ErrorsElsewhere ==
    {Plain(<<<<"message", Str("Quota exceeded")>>, <<"errorCode", Str("QUOTA_ERROR")>>>>),
     Plain(<<<<"message", Str("Internal")>>, <<"location", Plain(<<<<"fieldPathElements", Arr(<<>>)>>>>)>>>>),
     Plain(<<<<"message", Str("Bad request")>>,
             <<"location", Plain(<<<<"fieldPathElements",
                                     Arr(<<Plain(<<<<"fieldName", Str("customer_id")>>>>)>>)>>>>)>>>>)}

ErrorLists ==
    {<<>>, <<ErrorAt(0)>>, <<ErrorAt(1)>>, <<ErrorAt(2), ErrorAt(0)>>}
    \cup {<<e>> : e \in ErrorsElsewhere}
    \cup {<<ErrorAt(1), e>> : e \in ErrorsElsewhere}

Result(name) == Plain(<<<<"resourceName", Str(name)>>>>)

ResultLists ==
    {Undef,
     Arr(<<Result("customers/1/campaigns/10"), Result("customers/1/campaigns/11"),
           Result("customers/1/campaigns/12")>>),
     Arr(<<Plain(<<>>), Result("customers/1/campaigns/11"), Plain(<<>>)>>)}

\* how the remote call settles: with a response, with nothing, or rejected
Answers ==
    {Returned(Plain(<<<<"results", r>>>>)) : r \in ResultLists}
    \cup {Returned(Plain(<<<<"results", r>>, <<"partial_failure_error", Plain(<<<<"errors", Arr(l)>>>>)>>>>)) :
             r \in ResultLists, l \in ErrorLists}
    \cup {Returned(Plain(<<<<"partial_failure_error", Plain(<<<<"message", Str("failed")>>>>)>>>>)),
          Returned(Undef),
          Threw(NewError("Request failed")),
          Threw(Obj("Error", <<<<"message", Str("Deadline exceeded")>>, <<"code", Num(4)>>>>))}

ExecuteMutationsCalls ==
    {[fn |-> "executeMutations", client |-> c, resourceType |-> t, operations |-> Operations,
      validateOnly |-> v, answer |-> a] :
        c \in {Returned(Num(1)), Threw(NewError("Missing required environment variables"))},
        t \in {"campaign", "keyword"}, v \in {Undef, Bool(FALSE)}, a \in Answers}

ValidationCalls ==
    DateRangeCalls
    \cup ExecuteMutationsCalls
    \cup FormatSuccessCalls
    \cup FlattenRowCalls
    \cup BuildQueryCalls
    \cup ValidateQueryCalls
    \cup {[fn |-> "blockMutations", query |-> q] : q \in MutationTexts}
    \cup {[fn |-> "validateRequired", object |-> o, fields |-> f] :
             o \in RequiredObjects, f \in FieldLists}
    \cup {[fn |-> "validateEnum", value |-> v, allowed |-> a, paramName |-> l] :
             v \in EnumValues, a \in EnumLists, l \in EnumLabels}

InitValidation ==
    /\ env = NoEnvironment
    /\ phase = "unit"
    /\ exitCode = -1
    /\ cachedClient = 0
    /\ constructed = 0
    /\ pc = "idle"
    /\ params \in ValidationCalls
    /\ tool = params.fn
    /\ calls = <<>>
    /\ outcome = None
    /\ handled = 0

\* the call returns or throws: outcome is Returned(..) or Threw(..)
Finish(result) ==
    /\ pc = "idle"
    /\ pc' = "done"
    /\ outcome' = result
    /\ UNCHANGED <<env, phase, exitCode, cachedClient, constructed, tool, params, calls, handled>>

ApplyBlockMutations ==
    tool = "blockMutations" /\ Finish(blockMutations(params.query))

ApplyValidateRequired ==
    tool = "validateRequired" /\ Finish(validateRequired(params.object, params.fields))

ApplyValidateEnum ==
    tool = "validateEnum" /\ Finish(validateEnum(params.value, params.allowed, params.paramName))

ApplyValidateDateRange ==
    tool = "validateDateRange"
    /\ Finish(validateDateRange(params.range, params.startDate, params.endDate, params.now))

\* buildQuery returns finalQuery after the lint has written to the console
Built(finalQuery) ==
    /\ pc = "idle"
    /\ pc' = "done"
    /\ outcome' = Returned(Str(finalQuery))
    /\ calls' = logged(finalQuery)
    /\ UNCHANGED <<env, phase, exitCode, cachedClient, constructed, tool, params, handled>>

ApplyBuildQuery ==
    tool = "buildQuery" /\ Built(buildQuery(params.template, params.substitutions))

ApplyValidateQuery ==
    tool = "validateQuery" /\ Finish(Returned(validateQuery(params.query)))

ApplyFlattenRow ==
    tool = "flattenRow" /\ Finish(Returned(Plain(flattenRow(params.row, ""))))

ApplyFormatSuccess ==
    tool = "formatSuccess" /\ Finish(formatSuccess(params))

ApplyExecuteMutations ==
    /\ tool = "executeMutations"
    /\ Finish(executeMutations(params.client, params.resourceType, params.operations,
                               params.validateOnly, params.answer))

NextValidation ==
    \/ ApplyBuildQuery
    \/ ApplyExecuteMutations
    \/ ApplyFormatSuccess
    \/ ApplyFlattenRow
    \/ ApplyValidateQuery
    \/ ApplyBlockMutations
    \/ ApplyValidateRequired
    \/ ApplyValidateEnum
    \/ ApplyValidateDateRange

SpecValidation == InitValidation /\ [][NextValidation]_vars

Applied(fn) == tool = fn /\ pc = "done"

\* the keyword C12 expects in the error: the first of the declared order
\* that occurs in the lower-cased text, "" when none occurs
NamedKeyword(text) ==
    IF includes(toLowerCase(text), "create") THEN "create"
    ELSE IF includes(toLowerCase(text), "update") THEN "update"
    ELSE IF includes(toLowerCase(text), "remove") THEN "remove"
    ELSE IF includes(toLowerCase(text), "mutate") THEN "mutate"
    ELSE IF includes(toLowerCase(text), "delete") THEN "delete"
    ELSE ""

\* C12: blockMutations throws exactly when the lower-cased text contains one
\* of create, update, remove, mutate, delete as a substring, and the error
\* names the first keyword of that order that occurs, wherever it occurs in
\* the text; empty and blank texts pass.
C12_BlocksByDeclaredOrder ==
    Applied("blockMutations") =>
        /\ outcome.threw <=> NamedKeyword(params.query) # ""
        /\ outcome.threw =>
              Get(outcome.value, "message") =
                 Str("Mutation operations not allowed in query tool. Query contains: \""
                     \o NamedKeyword(params.query)
                     \o "\". Use the mutate tool for write operations.")
        /\ trim(params.query) = "" => ~outcome.threw

\* a text in which delete comes before create was rejected naming create
C12_Witness ==
    /\ Applied("blockMutations")
    /\ params.query = "delete then create"
    /\ outcome.threw
    /\ includes(Get(outcome.value, "message").s, "Query contains: \"create\"")

RECURSIVE MissingOf(_, _)
\* the fields of the list, in its order, whose value is undefined, null or ""
MissingOf(o, fields) ==
    IF fields = <<>> THEN <<>>
    ELSE (IF Get(o, fields[1]) = Undef \/ Get(o, fields[1]) = Null \/ Get(o, fields[1]) = Str("")
          THEN <<fields[1]>> ELSE <<>>) \o MissingOf(o, Tail(fields))

RECURSIVE CommaList(_)
CommaList(names) ==
    IF names = <<>> THEN ""
    ELSE IF Len(names) = 1 THEN names[1]
    ELSE names[1] \o ", " \o CommaList(Tail(names))

\* C13: validateRequired throws exactly when a listed field is undefined, null
\* or the empty string (0 and false are present); the message lists every such
\* field in the order of the list, joined by ", ", after "parameter" for one
\* and "parameters" for more; an empty list never fails.
C13_ListsEveryMissingField ==
    Applied("validateRequired") =>
        LET missing == MissingOf(params.object, params.fields)
        IN /\ outcome.threw <=> missing # <<>>
           /\ Len(missing) = 1 =>
                 Get(outcome.value, "message") = Str("Missing required parameter: " \o missing[1])
           /\ Len(missing) > 1 =>
                 Get(outcome.value, "message") =
                    Str("Missing required parameters: " \o CommaList(missing))
           /\ params.fields = <<>> => ~outcome.threw

\* with a = 0 and b = "" the fields b and the absent c were listed, a was not
C13_Witness ==
    /\ Applied("validateRequired")
    /\ params.object = Plain(<<<<"a", Num(0)>>, <<"b", Str("")>>>>)
    /\ params.fields = <<"a", "b", "c">>
    /\ outcome.threw
    /\ Get(outcome.value, "message") = Str("Missing required parameters: b, c")

\* C14: validateEnum throws exactly when the value is strictly equal to no
\* element of the allowed list (so always for an empty list); the message
\* holds the label, the value and the whole allowed list.
C14_StrictMembership ==
    Applied("validateEnum") =>
        /\ outcome.threw <=> (\A i \in 1..Len(params.allowed) : params.allowed[i] # params.value)
        /\ params.allowed = <<>> => outcome.threw
        /\ outcome.threw =>
              LET message == Get(outcome.value, "message").s
              IN /\ params.paramName # Undef =>
                       startsWith(message, "Invalid " \o params.paramName.s \o ": "
                                           \o ToStringJS(params.value) \o ". ")
                 /\ includes(message, ": " \o ToStringJS(params.value) \o ". Allowed values: ")
                 /\ \A i \in 1..Len(params.allowed) :
                       includes(message, ToStringJS(params.allowed[i]))
                 /\ \A i \in 1..(Len(params.allowed) - 1) :
                       includes(message, ToStringJS(params.allowed[i]) \o ", "
                                         \o ToStringJS(params.allowed[i + 1]))

\* the text "1" was rejected against the numbers 1, 2, 3
C14_Witness ==
    /\ Applied("validateEnum")
    /\ params.value = Str("1")
    /\ params.allowed = <<Num(1), Num(2), Num(3)>>
    /\ params.paramName = Str("status")
    /\ outcome.threw
    /\ Get(outcome.value, "message") = Str("Invalid status: 1. Allowed values: 1, 2, 3")

-----------------------------------------------------------------------------
(* validateDateRange *)

\* the numbers between the dashes of a date text
Parts(text) == [i \in 1..Len(split(text, "-")) |-> parseInt(split(text, "-")[i])]

\* dddd-dd-dd naming a day that exists
IsCalendarDate(text) ==
    /\ Len(text) = 10
    /\ \A i \in 1..10 : IF i \in {5, 8} THEN CharAt(text, i) = "-" ELSE IsDigit(CharAt(text, i))
    /\ Parts(text)[2] \in 1..12
    /\ Parts(text)[3] \in 1..DaysInMonth(Parts(text)[1], Parts(text)[2] - 1)

\* days from 1970-01-01 to the day d of month m (1..12) of year y
DaysFromCivil(y, m, d) ==
    LET yy == IF m <= 2 THEN y - 1 ELSE y
        era == yy \div 400
        yoe == yy - era * 400
        doy == (153 * ((m + 9) % 12) + 2) \div 5 + d - 1
    IN era * 146097 + yoe * 365 + yoe \div 4 - yoe \div 100 + doy - 719468

DayNumber(text) == DaysFromCivil(Parts(text)[1], Parts(text)[2], Parts(text)[3])

RangeReturned == Applied("validateDateRange") /\ ~outcome.threw

\* C15: every range validateDateRange returns has start <= end, for each
\* range name, CUSTOM with any dates of the caller included.
C15_StartNotAfterEnd ==
    RangeReturned =>
        /\ AllDigits(Join(split(Get(outcome.value, "start").s, "-"), ""))
        /\ AllDigits(Join(split(Get(outcome.value, "end").s, "-"), ""))
        /\ DayNumber(Get(outcome.value, "start").s) <= DayNumber(Get(outcome.value, "end").s)

\* C16: for a range argument that is none of the nine names validateDateRange
\* throws the "Invalid date_range" error listing the allowed names, and
\* returns no range.
C16_UnknownRangeRejected ==
    (Applied("validateDateRange")
        /\ params.range \notin {Str("TODAY"), Str("YESTERDAY"), Str("LAST_7_DAYS"),
                                Str("LAST_14_DAYS"), Str("LAST_30_DAYS"), Str("LAST_90_DAYS"),
                                Str("THIS_MONTH"), Str("LAST_MONTH"), Str("CUSTOM")})
    => /\ outcome.threw
       /\ Get(outcome.value, "message") =
             Str("Invalid date_range: " \o ToStringJS(params.range)
                 \o ". Allowed values: TODAY, YESTERDAY, LAST_7_DAYS, LAST_14_DAYS, LAST_30_DAYS, "
                 \o "LAST_90_DAYS, THIS_MONTH, LAST_MONTH, CUSTOM")

\* N of LAST_N_DAYS, 0 for any other argument
LastDays(range) ==
    IF range = Str("LAST_7_DAYS") THEN 7
    ELSE IF range = Str("LAST_14_DAYS") THEN 14
    ELSE IF range = Str("LAST_30_DAYS") THEN 30
    ELSE IF range = Str("LAST_90_DAYS") THEN 90
    ELSE 0

\* C17: LAST_N_DAYS for N in 7, 14, 30, 90 returns end = today and start = the
\* calendar date exactly N days earlier, across month and year boundaries.
C17_LastDaysExact ==
    (Applied("validateDateRange") /\ LastDays(params.range) > 0) =>
        /\ ~outcome.threw
        /\ IsCalendarDate(Get(outcome.value, "start").s)
        /\ IsCalendarDate(Get(outcome.value, "end").s)
        /\ Parts(Get(outcome.value, "end").s)
              = <<params.now.year, params.now.month + 1, params.now.date>>
        /\ DayNumber(Get(outcome.value, "end").s) - DayNumber(Get(outcome.value, "start").s)
              = LastDays(params.range)

\* on 2024-03-01 the last 90 days began on 2023-12-02, over a leap February
\* and a year boundary
C17_Witness ==
    /\ RangeReturned
    /\ params.range = Str("LAST_90_DAYS")
    /\ params.now = [year |-> 2024, month |-> 2, date |-> 1]
    /\ Get(outcome.value, "start") = Str("2023-12-02")
    /\ Get(outcome.value, "end") = Str("2024-03-01")

\* C18: CUSTOM with two calendar dates written as zero-padded YYYY-MM-DD
\* returns exactly those two texts as start and end.
C18_CustomRoundTrip ==
    (Applied("validateDateRange") /\ params.range = Str("CUSTOM")
        /\ params.startDate.t = "str" /\ IsCalendarDate(params.startDate.s)
        /\ params.endDate.t = "str" /\ IsCalendarDate(params.endDate.s))
    => /\ ~outcome.threw
       /\ Get(outcome.value, "start") = params.startDate
       /\ Get(outcome.value, "end") = params.endDate

NoDate(v) == v = Undef \/ v = Null \/ v = Str("")

\* C19: CUSTOM throws the "start_date and end_date required" error exactly
\* when the start or the end is absent or empty; for any other range
\* argument the two dates do not change the outcome.
C19_CustomNeedsBothDates ==
    Applied("validateDateRange") =>
        IF params.range = Str("CUSTOM")
        THEN (NoDate(params.startDate) \/ NoDate(params.endDate))
             <=> (outcome.threw /\ Get(outcome.value, "message")
                                      = Str("start_date and end_date required for CUSTOM range"))
        ELSE outcome = validateDateRange(params.range, Undef, Undef, params.now)

\* CUSTOM with a start and an empty end threw the error
C19_Witness ==
    /\ Applied("validateDateRange")
    /\ params.range = Str("CUSTOM")
    /\ params.startDate = Str("2024-01-01")
    /\ params.endDate = Str("")
    /\ outcome.threw
    /\ Get(outcome.value, "message") = Str("start_date and end_date required for CUSTOM range")

-----------------------------------------------------------------------------
(* buildQuery *)

\* a placeholder of the template whose substitution is absent is in the result
Remains(placeholder, substitution) ==
    (substitution = Undef /\ includes(params.template, placeholder))
    => includes(outcome.value.s, placeholder)

\* C20: buildQuery returns a string whatever the lint finds; a placeholder
\* that has no default and whose substitution is absent stays in the result
\* as written, and a result the lint finds invalid is returned as it is.
C20_LintNeverBlocks ==
    Applied("buildQuery") =>
        /\ ~outcome.threw
        /\ outcome.value.t = "str"
        /\ Remains("{{METRICS}}", params.substitutions.metrics)
        /\ Remains("{{START_DATE}}", params.substitutions.dates)
        /\ Remains("{{END_DATE}}", params.substitutions.dates)
        /\ Remains("{{MIN_COST_MICROS}}", params.substitutions.minCost)
        /\ Remains("{{DATE}}", params.substitutions.date)
        /\ Remains("{{SEGMENT_FIELD}}", params.substitutions.segmentField)
        /\ Remains("{{RESOURCE_ID}}", params.substitutions.resourceId)
        /\ Remains("{{MAX_QUALITY_SCORE}}", params.substitutions.maxQualityScore)
        /\ Remains("{{GEO_LEVEL}}", params.substitutions.geoLevel)
        /\ (params.substitutions = NoSubstitutions /\ params.template \in CallerTemplates)
              => outcome.value.s = params.template

\* the campaign template built with dates and without metrics: the lint logged
\* the unreplaced {{METRICS}} and the query was returned with it
C20_Witness ==
    /\ Applied("buildQuery")
    /\ params.template = TEMPLATES.CAMPAIGN_PERFORMANCE
    /\ params.substitutions.metrics = Undef
    /\ params.substitutions.dates # Undef
    /\ ~outcome.threw
    /\ includes(outcome.value.s, "campaign.advertising_channel_type, {{METRICS}} FROM campaign")
    /\ includes(outcome.value.s, "BETWEEN '2024-01-01' AND '2024-01-31'")
    /\ calls = <<[fn |-> "console.error",
                  args |-> <<"GAQL validation errors:",
                             "Unreplaced template variables: {{METRICS}}">>]>>

\* what C21 expects at a placeholder with a default
Shown(substitution, default) ==
    IF substitution = Undef THEN default ELSE ToStringJS(substitution)

\* C21: buildQuery uses the default (metrics.cost_micros, 50, 10, 0) exactly
\* when the substitution is absent; a supplied value, 0 included, is what
\* the query shows.
C21_DefaultOnlyWhenAbsent ==
    (Applied("buildQuery") /\ params.template = DefaultsTemplate
        /\ params.substitutions.filters = Undef)
    => outcome.value.s =
          "SELECT campaign.id FROM campaign WHERE metrics.impressions >= "
          \o Shown(params.substitutions.minImpressions, "10")
          \o " AND metrics.conversions = " \o Shown(params.substitutions.maxConversions, "0")
          \o " ORDER BY " \o Shown(params.substitutions.orderBy, "metrics.cost_micros")
          \o " DESC LIMIT " \o Shown(params.substitutions.limit, "50")

\* C22: the caller's filter is in the result character for character,
\* whatever it contains, and no later substitution alters it.
C22_FilterVerbatim ==
    (Applied("buildQuery") /\ params.substitutions.filters # Undef
        /\ includes(params.template, "{{FILTERS}}"))
    => includes(outcome.value.s, params.substitutions.filters.s)

RECURSIVE Namespaced(_)
\* the names with metrics. put before those that lack it, joined by ", "
Namespaced(names) ==
    IF names = <<>> THEN ""
    ELSE (IF Len(names[1].s) >= 8 /\ SubSeq(names[1].s, 1, 8) = "metrics." THEN names[1].s
          ELSE "metrics." \o names[1].s)
         \o (IF Len(names) > 1 THEN ", " \o Namespaced(Tail(names)) ELSE "")

\* C23: at the metrics placeholder the result has every given name once, in
\* the given order, joined by ", ", with metrics. added to a bare name and not
\* added to a name that has it.
C23_MetricsNamespaced ==
    (Applied("buildQuery") /\ params.substitutions.metrics # Undef
        /\ includes(params.template, "{{METRICS}}"))
    => /\ ~includes(outcome.value.s, "{{METRICS}}")
       /\ ~includes(outcome.value.s, "metrics.metrics.")
       /\ params.template = "campaign.id, {{METRICS}}" =>
             outcome.value.s = trim("campaign.id, " \o Namespaced(params.substitutions.metrics.a))
       /\ (params.template = TEMPLATES.CAMPAIGN_PERFORMANCE /\ params.substitutions.metrics.a # <<>>) =>
             includes(outcome.value.s,
                      "campaign.advertising_channel_type, "
                      \o Namespaced(params.substitutions.metrics.a) \o " FROM campaign")

\* a prefixed and a bare name were given; the result names both with one prefix
C23_Witness ==
    /\ Applied("buildQuery")
    /\ params.template = "campaign.id, {{METRICS}}"
    /\ params.substitutions.metrics = Arr(<<Str("metrics.impressions"), Str("clicks")>>)
    /\ outcome.value = Str("campaign.id, metrics.impressions, metrics.clicks")

\* the text has {{, one or more of A-Z and _, then }}
HasPlaceholder(text) ==
    \E i \in 1..Len(text) : \E j \in (i + 3)..(Len(text) - 1) :
        /\ SubSeq(text, i, i + 1) = "{{"
        /\ SubSeq(text, j, j + 1) = "}}"
        /\ \A k \in (i + 2)..(j - 1) : CharAt(text, k) \in UpperChars \cup {"_"}

\* C24: validateQuery does not throw; valid is true exactly when the text has
\* no leftover placeholder, starts with SELECT after trimming and contains
\* FROM, both in any letter case; warnings do not change valid, and errors
\* is empty exactly when valid is true.
C24_ValidMeansNoError ==
    Applied("validateQuery") =>
        /\ ~outcome.threw
        /\ outcome.value.valid <=>
              /\ ~HasPlaceholder(params.query)
              /\ startsWith(toLowerCase(trim(params.query)), "select")
              /\ includes(toLowerCase(params.query), "from")
        /\ outcome.value.valid <=> outcome.value.errors = <<>>

\* a query that draws a warning was found valid
C24_Witness ==
    /\ Applied("validateQuery")
    /\ params.query = "SELECT segments.date FROM campaign"
    /\ outcome.value.valid
    /\ outcome.value.warnings # <<>>

-----------------------------------------------------------------------------
(* flattenRow *)

RECURSIVE LeavesOf(_, _)
\* the leaves of a nested row: own key, path joined with ".", value
LeavesOf(row, prefix) ==
    UNION {IF row.props[i][2].t = "obj"
           THEN LeavesOf(row.props[i][2],
                         IF prefix = "" THEN row.props[i][1] ELSE prefix \o "." \o row.props[i][1])
           ELSE {[key |-> row.props[i][1],
                  dotted |-> IF prefix = "" THEN row.props[i][1] ELSE prefix \o "." \o row.props[i][1],
                  value |-> row.props[i][2]]} : i \in 1..Len(row.props)}

Holds(object, key, value) == \E i \in 1..Len(object.props) : object.props[i] = <<key, value>>

EndsInMicros(key) == Len(key) >= 7 /\ SubSeq(key, Len(key) - 6, Len(key)) = "_micros"

\* C25: the flat row has, for every leaf, the key made of its path joined
\* with "."; for a leaf whose own key ends in _micros and whose value is a
\* number it also has the dotted key without that trailing _micros, holding
\* value / 1,000,000, and the dotted micros key keeps the value.
C25_MicrosSibling ==
    Applied("flattenRow") =>
        \A leaf \in LeavesOf(params.row, "") :
            /\ Holds(outcome.value, leaf.dotted, leaf.value)
            /\ (EndsInMicros(leaf.key) /\ leaf.value.t = "num") =>
                  Holds(outcome.value, SubSeq(leaf.dotted, 1, Len(leaf.dotted) - 7),
                        Quotient(leaf.value.n, 1000000))

-----------------------------------------------------------------------------
(* formatSuccess *)

\* the JSON text of the envelope
EnvelopeText == outcome.value.props[1][2].a[1].props[2][2].s

\* the envelope's metadata has the key with the value
MetadataHas(key, value) ==
    \E after \in {",\n", "\n  }"} :
        includes(EnvelopeText, "\n    \"" \o key \o "\": " \o Stringify(value).s \o after)

\* C26: in the envelope metadata.rowCount is the caller's metadata.rowCount
\* when there is one and the number of elements of data otherwise; every other
\* key of the caller's metadata is there with its value.
C26_RowCountDefault ==
    Applied("formatSuccess") =>
        /\ ~outcome.threw
        /\ IF params.metadata # Undef /\ HasOwn(params.metadata, "rowCount")
           THEN MetadataHas("rowCount", OwnVal(params.metadata, "rowCount"))
           ELSE IF params.data.t = "arr"
           THEN MetadataHas("rowCount", Num(Len(params.data.a)))
           ELSE includes(EnvelopeText, "\n    \"rowCount\": ")
        /\ params.metadata # Undef =>
              \A i \in 1..Len(params.metadata.props) :
                  MetadataHas(params.metadata.props[i][1], params.metadata.props[i][2])

-----------------------------------------------------------------------------
(* list_accounts *)

ManagerFilter == "WHERE customer_client.manager = false"

\* C27: a list_accounts request with include_manager_accounts false or
\* omitted sends a query restricted to customer_client.manager = false, and
\* with it true an unrestricted query; the query goes to the login account
\* when one is configured and to the default account otherwise; with neither
\* configured the request ends in an error and no remote call is made.
C27_ListAccountsQuery ==
    (tool = "list_accounts" /\ pc # "idle") =>
        LET login == env["GOOGLE_ADS_LOGIN_CUSTOMER_ID"]
            default == env["GOOGLE_ADS_DEFAULT_CUSTOMER_ID"]
        IN /\ (login = Undef /\ default = Undef) =>
                 /\ calls = <<>>
                 /\ pc = "done"
                 /\ outcome.kind = "threw"
           /\ calls # <<>> =>
                 /\ Len(calls) = 1
                 /\ calls[1].method = "query"
                 /\ includes(calls[1].query, ManagerFilter)
                        <=> params.include_manager_accounts # Bool(TRUE)
                 /\ calls[1].customer.customer_id
                        = IF login # Undef THEN login ELSE default

\* list_accounts sent the restricted query to the default account, no login
\* account being configured
C27_Witness ==
    /\ tool = "list_accounts"
    /\ calls # <<>>
    /\ env["GOOGLE_ADS_LOGIN_CUSTOMER_ID"] = Undef
    /\ calls[1].customer.customer_id = env["GOOGLE_ADS_DEFAULT_CUSTOMER_ID"]
    /\ params.include_manager_accounts = Undef
    /\ includes(calls[1].query, ManagerFilter)

-----------------------------------------------------------------------------
(* query: the limit reported *)

\* C28: a successful query response reports as metadata.limit_applied the
\* value of the LIMIT clause of the query that was sent, and as
\* metadata.query_truncated whether the number of rows returned is at least
\* that value.
C28_LimitReported ==
    (tool = "query" /\ pc = "done" /\ outcome.kind = "returned" /\ outcome.value.success) =>
        LET sentLimit == parseInt(LimitMatch(calls[1].query).digits)
            rowCount == outcome.value.metadata.row_count
        IN /\ LimitMatch(calls[1].query).from # 0
           /\ outcome.value.metadata.limit_applied = sentLimit
           /\ outcome.value.metadata.query_truncated <=> rowCount >= sentLimit

-----------------------------------------------------------------------------
(* The account used when customer_id is omitted *)

\* C29: with customer_id omitted the query tool and the mutate tool resolve
\* the same account, the one of GOOGLE_ADS_DEFAULT_CUSTOMER_ID: a remote call
\* of either tool goes to that account, and neither tool reports a missing
\* customer_id while that variable is set.
C29_SameDefaultAccount ==
    (/\ tool \in {"query", "mutate"}
     /\ pc # "idle"
     /\ params.given
     /\ params.customer_id = Undef) =>
        LET default == env["GOOGLE_ADS_DEFAULT_CUSTOMER_ID"]
        IN /\ calls # <<>> => calls[1].customer.customer_id = default
           /\ (pc = "done" /\ includes(OutcomeText, "customer_id")) => default = Undef

-----------------------------------------------------------------------------
(* executeMutations *)

\* the errors of the partial failure the remote call resolved with
PartialErrors ==
    IF /\ ~params.answer.threw
       /\ params.answer.value.t = "obj"
       /\ HasOwn(params.answer.value, "partial_failure_error")
       /\ HasOwn(OwnVal(params.answer.value, "partial_failure_error"), "errors")
    THEN OwnVal(OwnVal(params.answer.value, "partial_failure_error"), "errors").a
    ELSE <<>>

\* the index the first field-path element of the error carries, Undef when
\* the error has no location, no path element or no index there
CarriedIndex(error) ==
    IF ~HasOwn(error, "location") THEN Undef
    ELSE LET path == OwnVal(OwnVal(error, "location"), "fieldPathElements").a
         IN IF path = <<>> \/ ~HasOwn(path[1], "index") THEN Undef
            ELSE OwnVal(path[1], "index")

\* C30: executeMutations reports each partial failure with the index of the
\* operation that failed: entry k of results.failed has the index that error
\* k of the partial failure carries, and -1 only when that error carries
\* none; results.success is true exactly when results.failed is empty.
C30_FailedIndex ==
    (Applied("executeMutations") /\ ~outcome.threw) =>
        LET results == outcome.value
        IN /\ results.success <=> results.failed = <<>>
           /\ (params.resourceType \in SUPPORTED_RESOURCE_TYPES /\ PartialErrors # <<>>) =>
                 /\ Len(results.failed) = Len(PartialErrors)
                 /\ \A k \in 1..Len(PartialErrors) :
                       IF CarriedIndex(PartialErrors[k]) = Undef
                       THEN results.failed[k].index = Num(-1)
                       ELSE /\ CarriedIndex(PartialErrors[k]).n \in 0..(Len(params.operations.a) - 1)
                            /\ results.failed[k].index = CarriedIndex(PartialErrors[k])

====
